---- MODULE Spec2Model ----
(***************************************************************************)
(* Invoice computation and lifecycle model of the invoicing application:   *)
(* the line item editor and submit flow of CreateInvoice, the record       *)
(* repository (services/firestore), the InvoiceList handlers, and the pure *)
(* helpers calculateInvoiceTotals and isInvoiceOverdue of types/index.ts.  *)
(*                                                                         *)
(* JavaScript numbers are modelled as exact rationals [n, d] in lowest     *)
(* terms; times are integer ticks, DayLen ticks to a calendar day.         *)
(***************************************************************************)
EXTENDS Integers, Sequences, FiniteSets, TLC

(* ------------------------------ bounds --------------------------------- *)

MaxItems == 2
MaxInvoices == 2
MaxTime == 3
DayLen == 2
\* the handlers of the invoice list awaiting a reply at the same time
MaxPending == 2
\* the auth-state changes not yet delivered to the observer
MaxEvents == 2

(* --------------------------- JS numbers -------------------------------- *)

Abs(x) == IF x < 0 THEN -x ELSE x

RECURSIVE GCD(_, _)
GCD(a, b) == IF b = 0 THEN a ELSE GCD(b, a % b)

\* the number num/den, in lowest terms with a positive denominator
Rat(num, den) ==
    LET g == GCD(Abs(num), Abs(den))
        s == IF den < 0 THEN -1 ELSE 1
    IN  [n |-> s * (num \div g), d |-> s * (den \div g)]

Num(k) == [n |-> k, d |-> 1]
Zero == Num(0)

Plus(a, b) == Rat(a.n * b.d + b.n * a.d, a.d * b.d)
Times(a, b) == Rat(a.n * b.n, a.d * b.d)
\* a / b for b # 0
DivBy(a, b) == Rat(a.n * b.d, a.d * b.n)
LessEq(a, b) == a.n * b.d <= b.n * a.d
Greater(a, b) == a.n * b.d > b.n * a.d

\* a form field value: the number it was initialised with, or the text of an
\* <input>; val is <<r>> for the numeral r and <<>> for the empty text
JsNumber(r) == [type |-> "number", val |-> <<r>>]
JsString(t) == [type |-> "string", val |-> t]

\* ToNumber as applied by the * operator: "" is 0, a numeral is its value
ToNumber(v) == IF v.val = <<>> THEN Zero ELSE v.val[1]

(* ------------------------------ dates ---------------------------------- *)

\* new Date(t).toISOString().split('T')[0]: the calendar day of the instant t
IsoDate(t) == t \div DayLen
\* new Date('YYYY-MM-DD'): midnight of that day
DateOf(day) == day * DayLen
\* 30 * 24 * 60 * 60 * 1000 ms
ThirtyDays == 30 * DayLen

(* ------------------------------ state ---------------------------------- *)

VARIABLES
    now,              \* the wall clock (Date.now(), new Date()), in ticks
    userProfile,      \* useAuth().userProfile: NoProfile or a user id
    page,             \* the mounted route: "dashboard", "create" or "list"
    clientIdFromUrl,  \* searchParams.get('clientId'), "" when absent
    formData,         \* CreateInvoice: the form fields
    items,            \* CreateInvoice: the line items being edited
    clients,          \* CreateInvoice: the loaded client list
    clientsFetch,     \* CreateInvoice: "idle" or "pending" getClients call
    loading,          \* CreateInvoice: the submit spinner flag
    createReq,        \* the createInvoice call in flight, or NoReq
    toast,            \* the last notification shown
    dbClients,        \* repository: collection 'clients', doc id -> data
    dbInvoices,       \* repository: collection 'invoices', doc id -> data
    nextDocId,        \* repository: the next fresh document id
    invoices,         \* InvoiceList: the displayed invoices
    listFetch,        \* InvoiceList: "idle" or "pending" getInvoices call
    pending,          \* InvoiceList: handler calls awaiting the repository
    call,             \* the last call of a pure helper, with its result
    clientList,       \* ClientList and the ClientForm it shows
    clientReq,        \* the client repository call in flight, or NoReq
    settings,         \* Settings: the account deletion dialogue
    accountReq,       \* the deleteUserAccount call in flight, or NoReq
    dbUsers,          \* repository: collection 'users', uid -> profile
    auth              \* Firebase Auth: currentUser and the accounts; and the
                      \* AuthProvider observing it: the changes not yet
                      \* delivered (events), its currentUser state
                      \* (contextUser) and the uids whose callback awaits
                      \* getDoc (profileFetches)

editorVars == <<formData, items, clients, clientsFetch, loading>>
listVars == <<invoices, listFetch, pending>>
repoVars == <<dbClients, dbInvoices, nextDocId>>
clientsVars == <<clientList, clientReq>>
accountVars == <<settings, accountReq, dbUsers, auth>>
stateVars == <<now, userProfile, page, clientIdFromUrl, editorVars, createReq,
               toast, repoVars, listVars, clientsVars, accountVars>>
vars == <<now, userProfile, page, clientIdFromUrl, formData, items, clients,
          clientsFetch, loading, createReq, toast, dbClients, dbInvoices,
          nextDocId, invoices, listFetch, pending, call, clientList,
          clientReq, settings, accountReq, dbUsers, auth>>

NoProfile == "none"
NoReq == [kind |-> "none"]
NoCall == [fn |-> "none"]
Users == {"u1"}

\* the clients the repository holds at start
Client(owner, name, phone, gstin) ==
    [userId |-> owner, name |-> name, email |-> "a@x.in",
     phone |-> phone, address |-> "Pune", gstin |-> gstin]
InitialClients ==
    [c \in {"c1", "c2", "c3"} |->
        IF c = "c1" THEN Client("u1", "Asha", "98", "27AB")
        ELSE IF c = "c2" THEN Client("u1", "Ravi", "", "")
        ELSE Client("u2", "Zed", "", "")]

\* the Firebase Auth accounts and the profile documents at start
Accounts == {"u1", "u2"}
NoUser == "none"
Password(uid) == "pw-" \o uid
Profile(uid) == [email |-> uid \o "@x.in", displayName |-> uid]
InitialUsers == [u \in Accounts |-> Profile(u)]
InitialAuth ==
    [currentUser |-> "u1", accounts |-> Accounts,
     events |-> <<"u1">>, contextUser |-> NoUser, profileFetches |-> {}]

\* the state of ClientList, ClientForm and Settings while not mounted
NoClientForm ==
    [name |-> "", email |-> "", phone |-> "", address |-> "", gstin |-> ""]
NoClientList ==
    [clients |-> <<>>, fetch |-> "idle", loading |-> FALSE,
     showForm |-> FALSE, editingClient |-> <<>>, formData |-> NoClientForm,
     formLoading |-> FALSE]
NoSettings ==
    [showDeleteConfirm |-> FALSE, showPasswordConfirm |-> FALSE,
     password |-> "", deleteLoading |-> FALSE]

\* the pages that are not mounted and the accounts at start
InitOtherPages ==
    /\ clientList = NoClientList
    /\ clientReq = NoReq
    /\ settings = NoSettings
    /\ accountReq = NoReq
    /\ dbUsers = InitialUsers
    /\ auth = IF userProfile = NoProfile THEN InitialAuth
              ELSE [InitialAuth EXCEPT !.events = <<>>,
                                       !.contextUser = userProfile]

(* ------------------------- types/index.ts ------------------------------ *)

\* as ReduceAmount, recomputing each amount from quantity and rate
RECURSIVE ReduceRecomputed(_, _)
ReduceRecomputed(sum, its) ==
    IF its = <<>> THEN sum
    ELSE ReduceRecomputed(Plus(sum, Times(Head(its).quantity, Head(its).rate)),
                          Tail(its))

\* items.reduce((sum, item) => sum + item.amount, 0)
RECURSIVE ReduceAmount(_, _)
ReduceAmount(sum, its) ==
    IF its = <<>> THEN sum
    ELSE ReduceAmount(Plus(sum, Head(its).amount), Tail(its))

\* as calculateInvoiceTotals, reading taxRate as a percentage
calculateInvoiceTotalsPercent(its, taxRate) ==
    LET subtotal == ReduceAmount(Zero, its)
        taxAmount == DivBy(Times(subtotal, taxRate), Num(100))
        total == Plus(subtotal, taxAmount)
    IN  [subtotal |-> subtotal, taxAmount |-> taxAmount, total |-> total]

calculateInvoiceTotals(its, taxRate) ==
    LET subtotal == ReduceAmount(Zero, its)
        taxAmount == Times(subtotal, taxRate)
        total == Plus(subtotal, taxAmount)
    IN  [subtotal |-> subtotal, taxAmount |-> taxAmount, total |-> total]

\* as isInvoiceOverdue, overdue from the due instant on
isInvoiceOverdueOnDueDate(invoice, today) ==
    invoice.status # "paid" /\ today >= invoice.dueDate

isInvoiceOverdue(invoice, today) ==
    invoice.status # "paid" /\ today > invoice.dueDate

(* ---------------------- CreateInvoice: the editor ---------------------- *)

\* useState initialisers of CreateInvoice, evaluated at mount
InitialFormData(urlClientId) ==
    [clientId |-> urlClientId,
     dueDate |-> IsoDate(now + ThirtyDays),
     taxRate |-> JsNumber(Num(18)),
     notes |-> "",
     status |-> "draft"]

InitialItems ==
    <<[id |-> "1", description |-> "", quantity |-> Num(1), rate |-> Zero,
       amount |-> Zero]>>

\* the editor's variables while CreateInvoice is not mounted
NoForm == [clientId |-> "", dueDate |-> 0, taxRate |-> JsNumber(Zero),
           notes |-> "", status |-> "draft"]
EditorUnmounted ==
    /\ formData' = NoForm
    /\ items' = <<>>
    /\ clients' = <<>>
    /\ clientsFetch' = "idle"
    /\ loading' = FALSE

handleChange(name, value) ==
    /\ page = "create"
    /\ name = "clientId" => clientIdFromUrl = ""
    /\ formData' = [formData EXCEPT ![name] = value]
    /\ UNCHANGED <<now, userProfile, page, clientIdFromUrl, items, clients,
                   clientsFetch, loading, createReq, toast, repoVars,
                   listVars, call,
                   clientsVars, accountVars>>

\* as ItemChanged, recomputing amount for 'quantity' only
ItemChangedQuantityOnly(item, field, value) ==
    LET set == [item EXCEPT ![field] = value]
    IN  IF field = "quantity"
        THEN [set EXCEPT !.amount = Times(set.quantity, set.rate)]
        ELSE set

\* { ...item, [field]: value } followed by the recomputation of amount
ItemChanged(item, field, value) ==
    LET set == [item EXCEPT ![field] = value]
    IN  IF field \in {"quantity", "rate"}
        THEN [set EXCEPT !.amount = Times(set.quantity, set.rate)]
        ELSE set

handleItemChange(index, field, value) ==
    /\ page = "create"
    /\ index \in 1..Len(items)
    /\ items' = [items EXCEPT ![index] = ItemChanged(items[index], field, value)]
    /\ UNCHANGED <<now, userProfile, page, clientIdFromUrl, formData, clients,
                   clientsFetch, loading, createReq, toast, repoVars,
                   listVars, call,
                   clientsVars, accountVars>>

NewItem ==
    [id |-> ToString(now), description |-> "", quantity |-> Num(1),
     rate |-> Zero, amount |-> Zero]

addItem ==
    /\ page = "create"
    /\ Len(items) < MaxItems
    /\ items' = Append(items, NewItem)
    /\ UNCHANGED <<now, userProfile, page, clientIdFromUrl, formData, clients,
                   clientsFetch, loading, createReq, toast, repoVars,
                   listVars, call,
                   clientsVars, accountVars>>

\* items.filter((_, i) => i !== index)
WithoutIndex(its, index) ==
    SubSeq(its, 1, index - 1) \o SubSeq(its, index + 1, Len(its))

\* as removeItem, without the length guard
removeItemUnguarded(index) ==
    /\ page = "create"
    /\ index \in 1..Len(items)
    /\ items' = WithoutIndex(items, index)
    /\ UNCHANGED <<now, userProfile, page, clientIdFromUrl, formData, clients,
                   clientsFetch, loading, createReq, toast, repoVars,
                   listVars, call,
                   clientsVars, accountVars>>

removeItem(index) ==
    /\ page = "create"
    /\ index \in 1..Len(items)
    /\ items' = IF Len(items) > 1 THEN WithoutIndex(items, index) ELSE items
    /\ UNCHANGED <<now, userProfile, page, clientIdFromUrl, formData, clients,
                   clientsFetch, loading, createReq, toast, repoVars,
                   listVars, call,
                   clientsVars, accountVars>>

\* as calculateTotals, with the tax left out of the total
calculateTotalsUntaxed ==
    LET subtotal == ReduceAmount(Zero, items)
        taxAmount == DivBy(Times(subtotal, ToNumber(formData.taxRate)), Num(100))
    IN  [subtotal |-> subtotal, taxAmount |-> taxAmount, total |-> subtotal]

calculateTotals ==
    LET subtotal == ReduceAmount(Zero, items)
        taxAmount == DivBy(Times(subtotal, ToNumber(formData.taxRate)), Num(100))
        total == Plus(subtotal, taxAmount)
    IN  [subtotal |-> subtotal, taxAmount |-> taxAmount, total |-> total]

\* as SomeItemInvalid, checking the description only
SomeItemUndescribed(its) ==
    \E i \in 1..Len(its) : its[i].description = ""

\* items.some(item => !item.description || item.quantity <= 0 || item.rate <= 0)
SomeItemInvalid(its) ==
    \E i \in 1..Len(its) :
        \/ its[i].description = ""
        \/ LessEq(its[i].quantity, Zero)
        \/ LessEq(its[i].rate, Zero)

\* as FindClient, falling back to the first client of the list
FindClientOrFirst(cs, clientId) ==
    LET hits == {i \in 1..Len(cs) : cs[i].id = clientId}
    IN  IF cs = <<>> THEN <<>>
        ELSE IF hits = {} THEN <<cs[1]>>
        ELSE <<cs[CHOOSE i \in hits : \A j \in hits : i <= j]>>

\* clients.find(c => c.id === formData.clientId), <<>> when undefined
FindClient(cs, clientId) ==
    LET hits == {i \in 1..Len(cs) : cs[i].id = clientId}
    IN  IF hits = {} THEN <<>>
        ELSE <<cs[CHOOSE i \in hits : \A j \in hits : i <= j]>>

InvoiceData(selectedClient) ==
    LET totals == calculateTotals
    IN  [clientId |-> formData.clientId,
         client |-> selectedClient,
         items |-> items,
         subtotal |-> totals.subtotal,
         taxRate |-> formData.taxRate,
         taxAmount |-> totals.taxAmount,
         total |-> totals.total,
         status |-> formData.status,
         dueDate |-> DateOf(formData.dueDate),
         notes |-> formData.notes]

\* the submit button is disabled while loading
handleSubmit ==
    /\ page = "create"
    /\ ~loading
    /\ IF formData.clientId = ""
       THEN /\ toast' = "Please select a client"
            /\ UNCHANGED <<loading, createReq>>
       ELSE IF SomeItemInvalid(items)
       THEN /\ toast' = "Please fill in all item details"
            /\ UNCHANGED <<loading, createReq>>
       ELSE IF userProfile = NoProfile
       THEN UNCHANGED <<toast, loading, createReq>>
       ELSE LET selectedClient == FindClient(clients, formData.clientId)
            IN  IF selectedClient = <<>>
                THEN /\ toast' = "Failed to create invoice"
                     /\ UNCHANGED <<loading, createReq>>
                ELSE /\ createReq' = [kind |-> "call", op |-> "createInvoice",
                                      userId |-> userProfile,
                                      invoiceData |-> InvoiceData(selectedClient[1]),
                                      from |-> clientIdFromUrl,
                                      phase |-> "sent", error |-> ""]
                     /\ loading' = TRUE
                     /\ UNCHANGED toast
    /\ UNCHANGED <<now, userProfile, page, clientIdFromUrl, formData, items,
                   clients, clientsFetch, repoVars, listVars, call,
                   clientsVars, accountVars>>

(* ----------------------- services/firestore ---------------------------- *)

\* some enumeration of a finite set (the order a query returns ties in)
RECURSIVE SeqOf(_)
SeqOf(S) ==
    IF S = {} THEN <<>>
    ELSE LET x == CHOOSE y \in S : TRUE IN <<x>> \o SeqOf(S \ {x})

\* document ids are allocated in creation order: descending id is
\* orderBy('createdAt', 'desc')
RECURSIVE Descending(_)
Descending(S) ==
    IF S = {} THEN <<>>
    ELSE LET x == CHOOSE y \in S : \A z \in S : z <= y
         IN  <<x>> \o Descending(S \ {x})

\* { id: doc.id, ...doc.data() }
DocWithId(id, data) == data @@ [id |-> id]

getClients(userId) ==
    LET ids == SeqOf({k \in DOMAIN dbClients : dbClients[k].userId = userId})
    IN  [i \in 1..Len(ids) |-> DocWithId(ids[i], dbClients[ids[i]])]

getInvoices(userId) ==
    LET ids == Descending({k \in DOMAIN dbInvoices : dbInvoices[k].userId = userId})
    IN  [i \in 1..Len(ids) |-> DocWithId(ids[i], dbInvoices[ids[i]])]

\* throw new Error('Failed to ...') in the catch block of each function
ErrorMessage(op) ==
    CASE op = "createClient" -> "Failed to create client"
      [] op = "updateClient" -> "Failed to update client"
      [] op = "deleteClient" -> "Failed to delete client"
      [] op = "createInvoice" -> "Failed to create invoice"
      [] op = "updateInvoice" -> "Failed to update invoice"
      [] op = "deleteInvoice" -> "Failed to delete invoice"

\* the reply to call o: resolved ("ok"), or rejected ("failed") with the
\* Error that the catch block of the repository function throws
Settle(o, phase) ==
    [o EXCEPT !.phase = phase,
              !.error = IF phase = "failed" THEN ErrorMessage(o.op) ELSE ""]

\* as createInvoiceDoc with userId spread first: the data's userId wins
createInvoiceDocDataFirst(userId, invoiceData) ==
    invoiceData @@ [userId |-> userId]

\* addDoc(collection(db, 'invoices'), { ...invoiceData, userId, ... })
createInvoiceDoc(userId, invoiceData) ==
    [userId |-> userId] @@ invoiceData

\* updateDoc(doc(db, 'invoices', invoiceId), { ...data }): merges the fields
updateInvoiceDoc(doc, data) == data @@ doc

(* --------------------- mounting and navigation ------------------------- *)

ListUnmounted ==
    /\ invoices' = <<>>
    /\ listFetch' = "idle"
    /\ UNCHANGED pending

\* InvoiceList mounts: useEffect(fetchInvoices, [userProfile?.uid])
ListMounted ==
    /\ invoices' = <<>>
    /\ listFetch' = IF userProfile = NoProfile THEN "idle" ELSE "pending"
    /\ UNCHANGED pending

\* The user navigates only while no repository call of a handler is awaiting
\* its reply, so a reply always finds the component that sent the call.
Settled ==
    /\ createReq = NoReq /\ pending = {}
    /\ clientReq = NoReq /\ accountReq = NoReq

\* ClientList and Settings unmount with their state
OtherPagesUnmounted ==
    /\ clientList' = NoClientList
    /\ settings' = NoSettings
    /\ UNCHANGED <<clientReq, accountReq, dbUsers, auth>>

\* /invoices/create or /invoices/create?clientId=...
OpenCreate(clientId) ==
    /\ Settled
    /\ page # "create"
    /\ page' = "create"
    /\ clientIdFromUrl' = clientId
    /\ formData' = InitialFormData(clientId)
    /\ items' = InitialItems
    /\ clients' = <<>>
    /\ clientsFetch' = IF userProfile = NoProfile THEN "idle" ELSE "pending"
    /\ loading' = FALSE
    /\ ListUnmounted
    /\ OtherPagesUnmounted
    /\ UNCHANGED <<now, userProfile, createReq, toast, repoVars, call>>

\* /invoices, also a reload of the page
OpenList ==
    /\ Settled
    /\ page' = "list"
    /\ clientIdFromUrl' = ""
    /\ EditorUnmounted
    /\ ListMounted
    /\ OtherPagesUnmounted
    /\ UNCHANGED <<now, userProfile, createReq, toast, repoVars, call>>

OpenDashboard ==
    /\ Settled
    /\ page # "dashboard"
    /\ page' = "dashboard"
    /\ clientIdFromUrl' = ""
    /\ EditorUnmounted
    /\ ListUnmounted
    /\ OtherPagesUnmounted
    /\ UNCHANGED <<now, userProfile, createReq, toast, repoVars, call>>

\* the auth context delivers the profile; effects keyed on its uid re-run
ProfileLoaded(uid) ==
    /\ userProfile = NoProfile
    /\ auth.currentUser = uid
    /\ userProfile' = uid
    /\ auth' = [auth EXCEPT !.events = <<>>, !.contextUser = uid]
    /\ clientsFetch' = IF page = "create" THEN "pending" ELSE clientsFetch
    /\ listFetch' = IF page = "list" THEN "pending" ELSE listFetch
    /\ clientList' = IF page = "clients"
                     THEN [clientList EXCEPT !.fetch = "pending"]
                     ELSE clientList
    /\ UNCHANGED <<now, page, clientIdFromUrl, formData, items, clients,
                   loading, createReq, toast, repoVars, invoices, pending,
                   call, clientReq, settings, accountReq, dbUsers>>

Tick ==
    /\ now < MaxTime
    /\ now' = now + 1
    /\ UNCHANGED <<userProfile, page, clientIdFromUrl, editorVars, createReq,
                   toast, repoVars, listVars, call,
                   clientsVars, accountVars>>

(* ------------------ CreateInvoice: repository replies ------------------ *)

fetchClientsDone ==
    /\ clientsFetch = "pending"
    /\ clientsFetch' = "idle"
    /\ \/ clients' = getClients(userProfile)
       \/ UNCHANGED clients
    /\ UNCHANGED <<now, userProfile, page, clientIdFromUrl, formData, items,
                   loading, createReq, toast, repoVars, listVars, call,
                   clientsVars, accountVars>>

\* createInvoice at the repository: addDoc stores the document or fails
createInvoice ==
    /\ createReq # NoReq /\ createReq.phase = "sent"
    /\ \/ /\ nextDocId <= MaxInvoices
          /\ dbInvoices' = dbInvoices @@
                (nextDocId :> createInvoiceDoc(createReq.userId,
                                               createReq.invoiceData))
          /\ nextDocId' = nextDocId + 1
          /\ createReq' = Settle(createReq, "ok")
       \/ /\ UNCHANGED <<dbInvoices, nextDocId>>
          /\ createReq' = Settle(createReq, "failed")
    /\ UNCHANGED <<now, userProfile, page, clientIdFromUrl, editorVars, toast,
                   dbClients, listVars, call, clientsVars, accountVars>>

\* handleSubmit after its await, createInvoice resolved: the flow navigates
\* to /invoices (or /invoices?clientId=...), where InvoiceList mounts
createInvoiceResolved ==
    /\ page = "create"
    /\ createReq # NoReq /\ createReq.phase = "ok"
    /\ createReq' = NoReq
    /\ toast' = "Invoice created successfully"
    /\ page' = "list"
    /\ clientIdFromUrl' = createReq.from
    /\ EditorUnmounted
    /\ ListMounted
    /\ UNCHANGED <<now, userProfile, repoVars, call,
                   clientsVars, accountVars>>

\* createInvoice rejected: 'Failed to create invoice', the spinner stops
createInvoiceRejected ==
    /\ page = "create"
    /\ createReq # NoReq /\ createReq.phase = "failed"
    /\ createReq' = NoReq
    /\ toast' = "Failed to create invoice"
    /\ loading' = FALSE
    /\ UNCHANGED <<now, userProfile, page, clientIdFromUrl, formData, items,
                   clients, clientsFetch, repoVars, listVars, call,
                   clientsVars, accountVars>>

(* --------------------------- InvoiceList ------------------------------- *)

\* as StatusOptions, with the statuses of the filter bar
StatusOptionsOfFilter == {"draft", "sent", "paid", "overdue"}

\* the options of the status <select> of a row
StatusOptions == {"draft", "sent", "paid"}

Shown == {invoices[i].id : i \in 1..Len(invoices)}

fetchInvoicesDone ==
    /\ listFetch = "pending"
    /\ listFetch' = "idle"
    /\ \/ invoices' = getInvoices(userProfile) /\ UNCHANGED toast
       \/ toast' = "Failed to load invoices" /\ UNCHANGED invoices
    /\ UNCHANGED <<now, userProfile, page, clientIdFromUrl, editorVars,
                   createReq, repoVars, pending, call,
                   clientsVars, accountVars>>

\* as handleStatusChange, showing the new status before the call returns
handleStatusChangeOptimistic(invoiceId, newStatus) ==
    /\ page = "list"
    /\ invoiceId \in Shown
    /\ pending' = pending \cup
            {[op |-> "updateInvoice", id |-> invoiceId, status |-> newStatus,
              closure |-> invoices, phase |-> "sent", error |-> ""]}
    /\ invoices' = [i \in DOMAIN invoices |->
            IF invoices[i].id = invoiceId
            THEN [invoices[i] EXCEPT !.status = newStatus] ELSE invoices[i]]
    /\ UNCHANGED <<now, userProfile, page, clientIdFromUrl, editorVars,
                   createReq, toast, repoVars, listFetch, call,
                   clientsVars, accountVars>>

\* the handler up to its await: the repository call is sent; `closure` is the
\* `invoices` of the render the handler belongs to
handleStatusChange(invoiceId, newStatus) ==
    /\ page = "list"
    /\ invoiceId \in Shown
    /\ pending' = pending \cup
            {[op |-> "updateInvoice", id |-> invoiceId, status |-> newStatus,
              closure |-> invoices, phase |-> "sent", error |-> ""]}
    /\ UNCHANGED <<now, userProfile, page, clientIdFromUrl, editorVars,
                   createReq, toast, repoVars, invoices, listFetch, call,
                   clientsVars, accountVars>>

\* confirm() answered yes
handleDelete(invoiceId) ==
    /\ page = "list"
    /\ invoiceId \in Shown
    /\ pending' = pending \cup
            {[op |-> "deleteInvoice", id |-> invoiceId, status |-> "",
              closure |-> invoices, phase |-> "sent", error |-> ""]}
    /\ UNCHANGED <<now, userProfile, page, clientIdFromUrl, editorVars,
                   createReq, toast, repoVars, invoices, listFetch, call,
                   clientsVars, accountVars>>

Replace(ops, o, phase) == (ops \ {o}) \cup {Settle(o, phase)}

\* as updateInvoice, refusing to reopen a paid invoice
updateInvoiceGuarded(o) ==
    /\ o.op = "updateInvoice" /\ o.phase = "sent"
    /\ \/ /\ o.id \in DOMAIN dbInvoices
          /\ ~(dbInvoices[o.id].status = "paid" /\ o.status = "draft")
          /\ dbInvoices' = [dbInvoices EXCEPT
                ![o.id] = updateInvoiceDoc(@, [status |-> o.status])]
          /\ pending' = Replace(pending, o, "ok")
       \/ /\ UNCHANGED dbInvoices
          /\ pending' = Replace(pending, o, "failed")
    /\ UNCHANGED <<now, userProfile, page, clientIdFromUrl, editorVars,
                   createReq, toast, dbClients, nextDocId, invoices,
                   listFetch, call,
                   clientsVars, accountVars>>

\* updateInvoice at the repository: updateDoc fails on a missing document
updateInvoice(o) ==
    /\ o.op = "updateInvoice" /\ o.phase = "sent"
    /\ \/ /\ o.id \in DOMAIN dbInvoices
          /\ dbInvoices' = [dbInvoices EXCEPT
                ![o.id] = updateInvoiceDoc(@, [status |-> o.status])]
          /\ pending' = Replace(pending, o, "ok")
       \/ /\ UNCHANGED dbInvoices
          /\ pending' = Replace(pending, o, "failed")
    /\ UNCHANGED <<now, userProfile, page, clientIdFromUrl, editorVars,
                   createReq, toast, dbClients, nextDocId, invoices,
                   listFetch, call,
                   clientsVars, accountVars>>

\* deleteInvoice at the repository
deleteInvoice(o) ==
    /\ o.op = "deleteInvoice" /\ o.phase = "sent"
    /\ \/ /\ dbInvoices' = [k \in DOMAIN dbInvoices \ {o.id} |-> dbInvoices[k]]
          /\ pending' = Replace(pending, o, "ok")
       \/ /\ UNCHANGED dbInvoices
          /\ pending' = Replace(pending, o, "failed")
    /\ UNCHANGED <<now, userProfile, page, clientIdFromUrl, editorVars,
                   createReq, toast, dbClients, nextDocId, invoices,
                   listFetch, call,
                   clientsVars, accountVars>>

\* invoices.map(inv => inv.id === invoiceId ? { ...inv, status } : inv)
WithStatus(invs, invoiceId, newStatus) ==
    [i \in 1..Len(invs) |->
        IF invs[i].id = invoiceId THEN [invs[i] EXCEPT !.status = newStatus]
        ELSE invs[i]]

\* invoices.filter(invoice => invoice.id !== invoiceId)
RECURSIVE WithoutId(_, _)
WithoutId(invs, invoiceId) ==
    IF invs = <<>> THEN <<>>
    ELSE IF Head(invs).id = invoiceId THEN WithoutId(Tail(invs), invoiceId)
    ELSE <<Head(invs)>> \o WithoutId(Tail(invs), invoiceId)

\* as handlerResumed, with a catch branch that shows nothing
handlerResumedSilent(o) ==
    /\ o \in pending /\ o.phase # "sent"
    /\ pending' = pending \ {o}
    /\ IF o.phase = "failed"
       THEN UNCHANGED <<toast, invoices>>
       ELSE IF o.op = "updateInvoice"
       THEN /\ invoices' = WithStatus(o.closure, o.id, o.status)
            /\ toast' = "Invoice status updated"
       ELSE /\ invoices' = WithoutId(o.closure, o.id)
            /\ toast' = "Invoice deleted successfully"
    /\ UNCHANGED <<now, userProfile, page, clientIdFromUrl, editorVars,
                   createReq, repoVars, listFetch, call,
                   clientsVars, accountVars>>

\* the handler after its await: setInvoices from the closure and a toast, or
\* the catch branch
handlerResumed(o) ==
    /\ o \in pending /\ o.phase # "sent"
    /\ pending' = pending \ {o}
    /\ IF o.phase = "failed"
       THEN /\ toast' = IF o.op = "updateInvoice" THEN "Failed to update status"
                        ELSE "Failed to delete invoice"
            /\ UNCHANGED invoices
       ELSE IF o.op = "updateInvoice"
       THEN /\ invoices' = WithStatus(o.closure, o.id, o.status)
            /\ toast' = "Invoice status updated"
       ELSE /\ invoices' = WithoutId(o.closure, o.id)
            /\ toast' = "Invoice deleted successfully"
    /\ UNCHANGED <<now, userProfile, page, clientIdFromUrl, editorVars,
                   createReq, repoVars, listFetch, call,
                   clientsVars, accountVars>>

\* generateInvoicePDF resolves or rejects; only a toast is left behind
handleDownloadPDF(invoiceId) ==
    /\ page = "list"
    /\ invoiceId \in Shown
    /\ userProfile # NoProfile
    /\ \/ toast' = "PDF downloaded successfully"
       \/ toast' = "Failed to generate PDF"
    /\ UNCHANGED <<now, userProfile, page, clientIdFromUrl, editorVars,
                   createReq, repoVars, listVars, call,
                   clientsVars, accountVars>>

\* as handleSendEmail, marking the invoice sent
handleSendEmailMarksSent(invoiceId) ==
    /\ page = "list"
    /\ invoiceId \in Shown
    /\ userProfile # NoProfile
    /\ toast' = "Email client opened with invoice details"
    /\ dbInvoices' = [k \in DOMAIN dbInvoices |->
            IF k = invoiceId THEN [dbInvoices[k] EXCEPT !.status = "sent"]
            ELSE dbInvoices[k]]
    /\ UNCHANGED <<now, userProfile, page, clientIdFromUrl, editorVars,
                   createReq, dbClients, nextDocId, listVars, call,
                   clientsVars, accountVars>>

\* opens the mail client through a mailto: link
handleSendEmail(invoiceId) ==
    /\ page = "list"
    /\ invoiceId \in Shown
    /\ userProfile # NoProfile
    /\ toast' = "Email client opened with invoice details"
    /\ UNCHANGED <<now, userProfile, page, clientIdFromUrl, editorVars,
                   createReq, repoVars, listVars, call,
                   clientsVars, accountVars>>

(* ---------------------- ClientList, ClientForm ------------------------- *)

\* /clients: ClientList mounts, useEffect(fetchClients, [userProfile?.uid])
OpenClients ==
    /\ Settled
    /\ page # "clients"
    /\ page' = "clients"
    /\ clientIdFromUrl' = ""
    /\ EditorUnmounted
    /\ ListUnmounted
    /\ clientList' = [NoClientList EXCEPT
            !.loading = TRUE,
            !.fetch = IF userProfile = NoProfile THEN "idle" ELSE "pending"]
    /\ settings' = NoSettings
    /\ UNCHANGED <<now, userProfile, createReq, toast, repoVars, call,
                   clientReq, accountReq, dbUsers, auth>>

\* ClientList.fetchClients after its await
ClientList_fetchClientsDone ==
    /\ page = "clients"
    /\ clientList.fetch = "pending"
    /\ \/ /\ clientList' = [clientList EXCEPT !.fetch = "idle",
                                              !.loading = FALSE,
                                              !.clients = getClients(userProfile)]
          /\ UNCHANGED toast
       \/ /\ clientList' = [clientList EXCEPT !.fetch = "idle",
                                              !.loading = FALSE]
          /\ toast' = "Failed to load clients"
    /\ UNCHANGED <<now, userProfile, page, clientIdFromUrl, editorVars,
                   createReq, repoVars, listVars, call, clientReq,
                   accountVars>>

\* useState initialiser of ClientForm: client?.name || '', ...
ClientFormData(client) ==
    IF client = <<>> THEN NoClientForm
    ELSE [name |-> client[1].name, email |-> client[1].email,
          phone |-> client[1].phone, address |-> client[1].address,
          gstin |-> client[1].gstin]

\* the Add Client button: setShowForm(true), ClientForm mounts
ShowAddForm ==
    /\ page = "clients"
    /\ ~clientList.loading /\ ~clientList.showForm
    /\ clientList' = [clientList EXCEPT
            !.showForm = TRUE,
            !.formData = ClientFormData(clientList.editingClient),
            !.formLoading = FALSE]
    /\ UNCHANGED <<now, userProfile, page, clientIdFromUrl, editorVars,
                   createReq, toast, repoVars, listVars, call, clientReq,
                   accountVars>>

\* ClientList.handleEdit: ClientForm mounts with the client
handleEdit(client) ==
    /\ page = "clients"
    /\ ~clientList.loading /\ ~clientList.showForm
    /\ clientList' = [clientList EXCEPT
            !.editingClient = <<client>>,
            !.showForm = TRUE,
            !.formData = ClientFormData(<<client>>),
            !.formLoading = FALSE]
    /\ UNCHANGED <<now, userProfile, page, clientIdFromUrl, editorVars,
                   createReq, toast, repoVars, listVars, call, clientReq,
                   accountVars>>

\* onCancel of the form: setShowForm(false), setEditingClient(null)
ClientForm_onCancel ==
    /\ page = "clients"
    /\ clientList.showForm
    /\ clientList' = [clientList EXCEPT !.showForm = FALSE,
                                        !.editingClient = <<>>,
                                        !.formData = NoClientForm,
                                        !.formLoading = FALSE]
    /\ UNCHANGED <<now, userProfile, page, clientIdFromUrl, editorVars,
                   createReq, toast, repoVars, listVars, call, clientReq,
                   accountVars>>

\* ClientForm.handleChange
ClientForm_handleChange(name, value) ==
    /\ page = "clients"
    /\ clientList.showForm
    /\ clientList' = [clientList EXCEPT !.formData[name] = value]
    /\ UNCHANGED <<now, userProfile, page, clientIdFromUrl, editorVars,
                   createReq, toast, repoVars, listVars, call, clientReq,
                   accountVars>>

\* as ClientForm_handleSubmit, without the check of the required fields
ClientForm_handleSubmitUnchecked ==
    /\ page = "clients"
    /\ clientList.showForm /\ ~clientList.formLoading
    /\ LET form == clientList.formData
           client == clientList.editingClient
       IN  IF userProfile = NoProfile
           THEN UNCHANGED <<toast, clientList, clientReq>>
           ELSE /\ clientList' = [clientList EXCEPT !.formLoading = TRUE]
                /\ clientReq' =
                      IF client # <<>>
                      THEN [kind |-> "call", op |-> "updateClient",
                            id |-> client[1].id, userId |-> userProfile,
                            data |-> form, closure |-> clientList.clients,
                            phase |-> "sent", error |-> ""]
                      ELSE [kind |-> "call", op |-> "createClient",
                            id |-> "", userId |-> userProfile,
                            data |-> form, closure |-> clientList.clients,
                            phase |-> "sent", error |-> ""]
                /\ UNCHANGED toast
    /\ UNCHANGED <<now, userProfile, page, clientIdFromUrl, editorVars,
                   createReq, repoVars, listVars, call, accountVars>>

\* ClientForm.handleSubmit up to its await; the submit button is disabled
\* while loading
ClientForm_handleSubmit ==
    /\ page = "clients"
    /\ clientList.showForm /\ ~clientList.formLoading
    /\ LET form == clientList.formData
           client == clientList.editingClient
       IN  IF form.name = "" \/ form.email = "" \/ form.address = ""
           THEN /\ toast' = "Please fill in all required fields"
                /\ UNCHANGED <<clientList, clientReq>>
           ELSE IF userProfile = NoProfile
           THEN UNCHANGED <<toast, clientList, clientReq>>
           ELSE /\ clientList' = [clientList EXCEPT !.formLoading = TRUE]
                /\ clientReq' =
                      IF client # <<>>
                      THEN [kind |-> "call", op |-> "updateClient",
                            id |-> client[1].id, userId |-> userProfile,
                            data |-> form, closure |-> clientList.clients,
                            phase |-> "sent", error |-> ""]
                      ELSE [kind |-> "call", op |-> "createClient",
                            id |-> "", userId |-> userProfile,
                            data |-> form, closure |-> clientList.clients,
                            phase |-> "sent", error |-> ""]
                /\ UNCHANGED toast
    /\ UNCHANGED <<now, userProfile, page, clientIdFromUrl, editorVars,
                   createReq, repoVars, listVars, call, accountVars>>

\* ClientList.handleDelete up to its await, confirm() answered yes (the form
\* is a modal overlay, the list below it takes no clicks); `closure`
\* is the `clients` of the render the handler belongs to
ClientList_handleDelete(clientId) ==
    /\ page = "clients"
    /\ ~clientList.loading /\ ~clientList.showForm
    /\ \E i \in 1..Len(clientList.clients) : clientList.clients[i].id = clientId
    /\ clientReq' = [kind |-> "call", op |-> "deleteClient", id |-> clientId,
                     userId |-> userProfile, data |-> NoClientForm,
                     closure |-> clientList.clients,
                     phase |-> "sent", error |-> ""]
    /\ UNCHANGED <<now, userProfile, page, clientIdFromUrl, editorVars,
                   createReq, toast, repoVars, listVars, call, clientList,
                   accountVars>>

\* document ids addDoc can give to a new client
NewClientIds == {"c4"}

\* addDoc(collection(db, 'clients'), { ...clientData, userId, ... })
createClientDoc(userId, clientData) == [userId |-> userId] @@ clientData

\* updateDoc(doc(db, 'clients', clientId), { ...data }): merges the fields
updateClientDoc(doc, data) == data @@ doc

\* createClient at the repository
createClient ==
    /\ clientReq # NoReq
    /\ clientReq.op = "createClient" /\ clientReq.phase = "sent"
    /\ \/ \E id \in NewClientIds \ DOMAIN dbClients :
             /\ dbClients' = dbClients @@
                    (id :> createClientDoc(clientReq.userId, clientReq.data))
             /\ clientReq' = Settle(clientReq, "ok")
       \/ /\ UNCHANGED dbClients
          /\ clientReq' = Settle(clientReq, "failed")
    /\ UNCHANGED <<now, userProfile, page, clientIdFromUrl, editorVars,
                   createReq, toast, dbInvoices, nextDocId, listVars, call,
                   clientList, accountVars>>

\* as updateClient, also rewriting the client embedded in the invoices
updateClientCascading ==
    /\ clientReq # NoReq
    /\ clientReq.op = "updateClient" /\ clientReq.phase = "sent"
    /\ \/ /\ clientReq.id \in DOMAIN dbClients
          /\ dbClients' = [dbClients EXCEPT
                ![clientReq.id] = updateClientDoc(@, clientReq.data)]
          /\ dbInvoices' = [k \in DOMAIN dbInvoices |->
                IF dbInvoices[k].clientId = clientReq.id
                THEN [dbInvoices[k] EXCEPT
                        !.client = updateClientDoc(@, clientReq.data)]
                ELSE dbInvoices[k]]
          /\ clientReq' = Settle(clientReq, "ok")
       \/ /\ UNCHANGED <<dbClients, dbInvoices>>
          /\ clientReq' = Settle(clientReq, "failed")
    /\ UNCHANGED <<now, userProfile, page, clientIdFromUrl, editorVars,
                   createReq, toast, nextDocId, listVars, call,
                   clientList, accountVars>>

\* updateClient at the repository: updateDoc fails on a missing document
updateClient ==
    /\ clientReq # NoReq
    /\ clientReq.op = "updateClient" /\ clientReq.phase = "sent"
    /\ \/ /\ clientReq.id \in DOMAIN dbClients
          /\ dbClients' = [dbClients EXCEPT
                ![clientReq.id] = updateClientDoc(@, clientReq.data)]
          /\ clientReq' = Settle(clientReq, "ok")
       \/ /\ UNCHANGED dbClients
          /\ clientReq' = Settle(clientReq, "failed")
    /\ UNCHANGED <<now, userProfile, page, clientIdFromUrl, editorVars,
                   createReq, toast, dbInvoices, nextDocId, listVars, call,
                   clientList, accountVars>>

\* deleteClient at the repository: deleteDoc of the client document only
deleteClient ==
    /\ clientReq # NoReq
    /\ clientReq.op = "deleteClient" /\ clientReq.phase = "sent"
    /\ \/ /\ dbClients' = [k \in DOMAIN dbClients \ {clientReq.id} |->
                              dbClients[k]]
          /\ clientReq' = Settle(clientReq, "ok")
       \/ /\ UNCHANGED dbClients
          /\ clientReq' = Settle(clientReq, "failed")
    /\ UNCHANGED <<now, userProfile, page, clientIdFromUrl, editorVars,
                   createReq, toast, dbInvoices, nextDocId, listVars, call,
                   clientList, accountVars>>

\* ClientForm.handleSubmit after its await: the toast and onSuccess
\* (ClientList.handleFormSuccess: the form closes, fetchClients runs), or
\* the catch branch; finally setLoading(false)
ClientForm_handleSubmitResumed ==
    /\ page = "clients"
    /\ clientReq # NoReq
    /\ clientReq.op \in {"createClient", "updateClient"}
    /\ clientReq.phase # "sent"
    /\ clientReq' = NoReq
    /\ IF clientReq.phase = "failed"
       THEN /\ toast' = "Failed to save client"
            /\ clientList' = [clientList EXCEPT !.formLoading = FALSE]
       ELSE /\ toast' = IF clientReq.op = "updateClient"
                        THEN "Client updated successfully"
                        ELSE "Client added successfully"
            /\ clientList' = [clientList EXCEPT
                    !.showForm = FALSE,
                    !.editingClient = <<>>,
                    !.formData = NoClientForm,
                    !.formLoading = FALSE,
                    !.fetch = "pending"]
    /\ UNCHANGED <<now, userProfile, page, clientIdFromUrl, editorVars,
                   createReq, repoVars, listVars, call, accountVars>>

\* ClientList.handleDelete after its await: setClients from the closure and
\* a toast, or the catch branch
ClientList_handleDeleteResumed ==
    /\ page = "clients"
    /\ clientReq # NoReq
    /\ clientReq.op = "deleteClient" /\ clientReq.phase # "sent"
    /\ clientReq' = NoReq
    /\ IF clientReq.phase = "failed"
       THEN /\ toast' = "Failed to delete client"
            /\ UNCHANGED clientList
       ELSE /\ toast' = "Client deleted successfully"
            /\ clientList' = [clientList EXCEPT
                    !.clients = WithoutId(clientReq.closure, clientReq.id)]
    /\ UNCHANGED <<now, userProfile, page, clientIdFromUrl, editorVars,
                   createReq, repoVars, listVars, call, accountVars>>

(* ------------------- Settings, deleteUserAccount ----------------------- *)

\* /settings: Settings mounts
OpenSettings ==
    /\ Settled
    /\ page # "settings"
    /\ page' = "settings"
    /\ clientIdFromUrl' = ""
    /\ EditorUnmounted
    /\ ListUnmounted
    /\ clientList' = NoClientList
    /\ settings' = NoSettings
    /\ UNCHANGED <<now, userProfile, createReq, toast, repoVars, call,
                   clientReq, accountReq, dbUsers, auth>>

\* the Delete Account button: setShowDeleteConfirm(true)
ShowDeleteConfirm ==
    /\ page = "settings"
    /\ ~settings.showDeleteConfirm /\ ~settings.showPasswordConfirm
    /\ settings' = [settings EXCEPT !.showDeleteConfirm = TRUE]
    /\ UNCHANGED <<now, userProfile, page, clientIdFromUrl, editorVars,
                   createReq, toast, repoVars, listVars, call, clientsVars,
                   accountReq, dbUsers, auth>>

\* the confirmation button: setShowPasswordConfirm(true)
ShowPasswordConfirm ==
    /\ page = "settings"
    /\ settings.showDeleteConfirm /\ ~settings.showPasswordConfirm
    /\ settings' = [settings EXCEPT !.showPasswordConfirm = TRUE]
    /\ UNCHANGED <<now, userProfile, page, clientIdFromUrl, editorVars,
                   createReq, toast, repoVars, listVars, call, clientsVars,
                   accountReq, dbUsers, auth>>

\* the password input: setPassword(e.target.value)
setPassword(value) ==
    /\ page = "settings"
    /\ settings.showPasswordConfirm
    /\ settings' = [settings EXCEPT !.password = value]
    /\ UNCHANGED <<now, userProfile, page, clientIdFromUrl, editorVars,
                   createReq, toast, repoVars, listVars, call, clientsVars,
                   accountReq, dbUsers, auth>>

\* the Cancel buttons; the one of the password step is disabled while
\* deleteLoading
resetDeleteFlow ==
    /\ page = "settings"
    /\ settings.showDeleteConfirm
    /\ ~settings.deleteLoading
    /\ settings' = [settings EXCEPT !.showDeleteConfirm = FALSE,
                                    !.showPasswordConfirm = FALSE,
                                    !.password = ""]
    /\ UNCHANGED <<now, userProfile, page, clientIdFromUrl, editorVars,
                   createReq, toast, repoVars, listVars, call, clientsVars,
                   accountReq, dbUsers, auth>>

\* Settings.handleDeleteAccount up to its await (the button, or Enter in the
\* password input)
handleDeleteAccount ==
    /\ page = "settings"
    /\ settings.showPasswordConfirm
    /\ IF settings.password = ""
       THEN /\ toast' = "Please enter your password"
            /\ UNCHANGED <<settings, accountReq>>
       ELSE IF userProfile = NoProfile
       THEN UNCHANGED <<toast, settings, accountReq>>
       ELSE /\ settings' = [settings EXCEPT !.deleteLoading = TRUE]
            /\ accountReq' = [kind |-> "call", op |-> "deleteUserAccount",
                              userId |-> userProfile,
                              password |-> settings.password,
                              user |-> auth.currentUser,
                              phase |-> "sent", error |-> "", code |-> ""]
            /\ UNCHANGED toast
    /\ UNCHANGED <<now, userProfile, page, clientIdFromUrl, editorVars,
                   createReq, repoVars, listVars, call, clientsVars,
                   dbUsers, auth>>

\* the messages deleteUserAccount maps the error codes of Firebase Auth to
AuthErrorMessage(code) ==
    CASE code = "auth/wrong-password" -> "Incorrect password provided"
      [] code = "auth/too-many-requests" ->
            "Too many failed attempts. Please try again later"
      [] code = "auth/requires-recent-login" ->
            "Please log out and log back in before deleting your account"
      [] code = "auth/network-request-failed" ->
            "Network error. Please check your internet connection and try again"
      [] OTHER -> "Failed to delete account. Please try again"

\* the error codes reauthenticateWithCredential can reject with when the
\* password is the right one
TransientAuthErrors == {"auth/too-many-requests", "auth/network-request-failed"}

\* as deleteUserAccountReauth, without the comparison of the user ids
deleteUserAccountReauthAnyUser ==
    /\ accountReq # NoReq /\ accountReq.phase = "sent"
    /\ \/ /\ accountReq.user = NoUser
          /\ accountReq' = [accountReq EXCEPT
                !.phase = "failed",
                !.error = "User not authenticated or user ID mismatch"]
       \/ /\ accountReq.user # NoUser
          /\ \/ /\ accountReq.password = Password(accountReq.user)
                /\ accountReq' = [accountReq EXCEPT !.phase = "reauthenticated"]
             \/ /\ accountReq.password # Password(accountReq.user)
                /\ accountReq' = [accountReq EXCEPT
                      !.phase = "failed",
                      !.error = AuthErrorMessage("auth/wrong-password")]
             \/ \E code \in TransientAuthErrors :
                   accountReq' = [accountReq EXCEPT
                      !.phase = "failed", !.error = AuthErrorMessage(code)]
    /\ UNCHANGED <<now, userProfile, page, clientIdFromUrl, editorVars,
                   createReq, toast, repoVars, listVars, call, clientsVars,
                   settings, dbUsers, auth>>

\* deleteUserAccount up to the end of reauthenticateWithCredential: userId
\* must be the uid of `user`, the auth.currentUser read when the call began,
\* and the password the one of that account
deleteUserAccountReauth ==
    /\ accountReq # NoReq /\ accountReq.phase = "sent"
    /\ \/ /\ accountReq.user = NoUser \/ accountReq.user # accountReq.userId
          /\ accountReq' = [accountReq EXCEPT
                !.phase = "failed",
                !.error = "User not authenticated or user ID mismatch"]
       \/ /\ accountReq.user # NoUser /\ accountReq.user = accountReq.userId
          /\ \/ /\ accountReq.password = Password(accountReq.user)
                /\ accountReq' = [accountReq EXCEPT !.phase = "reauthenticated"]
             \/ /\ accountReq.password # Password(accountReq.user)
                /\ accountReq' = [accountReq EXCEPT
                      !.phase = "failed",
                      !.error = AuthErrorMessage("auth/wrong-password")]
             \/ \E code \in TransientAuthErrors :
                   accountReq' = [accountReq EXCEPT
                      !.phase = "failed", !.error = AuthErrorMessage(code)]
    /\ UNCHANGED <<now, userProfile, page, clientIdFromUrl, editorVars,
                   createReq, toast, repoVars, listVars, call, clientsVars,
                   settings, dbUsers, auth>>

\* the documents of a collection that a where('userId', '==', userId) query
\* does not return
NotOwnedBy(collection, userId) ==
    [k \in {d \in DOMAIN collection : collection[d].userId # userId} |->
        collection[k]]

\* deleteUserAccount from the two queries to batch.commit(): the clients,
\* the invoices and the profile of the user go in one atomic write, or the
\* commit (or a query) fails with the message of the Firestore error
deleteUserAccountCommit ==
    /\ accountReq # NoReq /\ accountReq.phase = "reauthenticated"
    /\ \/ /\ dbClients' = NotOwnedBy(dbClients, accountReq.userId)
          /\ dbInvoices' = NotOwnedBy(dbInvoices, accountReq.userId)
          /\ dbUsers' = [u \in DOMAIN dbUsers \ {accountReq.userId} |->
                            dbUsers[u]]
          /\ accountReq' = [accountReq EXCEPT !.phase = "committed"]
       \/ /\ UNCHANGED <<dbClients, dbInvoices, dbUsers>>
          /\ accountReq' = [accountReq EXCEPT
                !.phase = "failed",
                !.error = "Missing or insufficient permissions."]
    /\ UNCHANGED <<now, userProfile, page, clientIdFromUrl, editorVars,
                   createReq, toast, nextDocId, listVars, call, clientsVars,
                   settings, auth>>

\* deleteUserAccount at deleteUser(user): the account goes and the user is
\* signed out, or the call fails
deleteUserAccountDeleteUser ==
    /\ accountReq # NoReq /\ accountReq.phase = "committed"
    /\ \/ /\ auth' = [auth EXCEPT
                         !.currentUser = IF @ = accountReq.user
                                         THEN NoUser ELSE @,
                         !.events = IF auth.currentUser = accountReq.user
                                    THEN Append(@, NoUser) ELSE @,
                         !.accounts = @ \ {accountReq.user}]
          /\ accountReq' = [accountReq EXCEPT !.phase = "ok"]
       \/ /\ UNCHANGED auth
          /\ accountReq' = [accountReq EXCEPT
                !.phase = "failed",
                !.error = AuthErrorMessage("auth/network-request-failed")]
    /\ UNCHANGED <<now, userProfile, page, clientIdFromUrl, editorVars,
                   createReq, toast, repoVars, listVars, call, clientsVars,
                   settings, dbUsers>>

\* Settings.handleDeleteAccount after its await: the catch picks the message
\* by error.code; `error` is the message and `code` the code of the Error
\* that deleteUserAccount threw, which it made with new Error(message) and
\* so without a code ("" for undefined)
handleDeleteAccountResumed ==
    /\ page = "settings"
    /\ accountReq # NoReq /\ accountReq.phase \in {"ok", "failed"}
    /\ accountReq' = NoReq
    /\ toast' = IF accountReq.phase = "ok"
                THEN "Account deleted successfully"
                ELSE IF accountReq.code = "auth/wrong-password"
                THEN "Incorrect password"
                ELSE IF accountReq.code = "auth/too-many-requests"
                THEN "Too many attempts. Please try again later"
                ELSE "Failed to delete account. Please try again"
    /\ settings' = [settings EXCEPT !.deleteLoading = FALSE]
    /\ UNCHANGED <<now, userProfile, page, clientIdFromUrl, editorVars,
                   createReq, repoVars, listVars, call, clientsVars,
                   dbUsers, auth>>

\* the session changes outside this tab: signed out, or signed in as one of
\* the accounts; the tab's userProfile follows with AuthStateChanged. The
\* session is taken to be stable while deleteUserAccount runs.
AuthChangedElsewhere(user) ==
    /\ accountReq = NoReq
    /\ user \in {NoUser} \cup auth.accounts
    /\ user # auth.currentUser
    /\ Len(auth.events) < MaxEvents
    /\ auth' = [auth EXCEPT !.currentUser = user, !.events = Append(@, user)]
    /\ UNCHANGED <<now, userProfile, page, clientIdFromUrl, editorVars,
                   createReq, toast, repoVars, listVars, call, clientsVars,
                   settings, accountReq, dbUsers>>

\* AuthProvider: the onAuthStateChanged callback and its fetch have run with
\* no other auth event in between; effects keyed on userProfile?.uid re-run
AuthStateChanged ==
    /\ userProfile # auth.currentUser
    /\ auth.profileFetches = {}
    /\ userProfile' = auth.currentUser
    /\ auth' = [auth EXCEPT !.events = <<>>,
                            !.contextUser = auth.currentUser]
    /\ clientsFetch' = IF page = "create" /\ auth.currentUser # NoUser
                       THEN "pending" ELSE clientsFetch
    /\ listFetch' = IF page = "list" /\ auth.currentUser # NoUser
                    THEN "pending" ELSE listFetch
    /\ clientList' = IF page = "clients" /\ auth.currentUser # NoUser
                     THEN [clientList EXCEPT !.fetch = "pending"]
                     ELSE clientList
    /\ UNCHANGED <<now, page, clientIdFromUrl, formData, items, clients,
                   loading, createReq, toast, repoVars, invoices, pending,
                   call, clientReq, settings, accountReq, dbUsers>>

\* effects keyed on userProfile?.uid re-run when the uid becomes `uid`
EffectsRerun(uid) ==
    /\ clientsFetch' = IF page = "create" /\ uid # NoUser /\ uid # userProfile
                       THEN "pending" ELSE clientsFetch
    /\ listFetch' = IF page = "list" /\ uid # NoUser /\ uid # userProfile
                    THEN "pending" ELSE listFetch
    /\ clientList' = IF page = "clients" /\ uid # NoUser /\ uid # userProfile
                     THEN [clientList EXCEPT !.fetch = "pending"]
                     ELSE clientList

\* AuthProvider: the onAuthStateChanged callback up to its await:
\* setCurrentUser(user), then getDoc of the profile is awaited, or, signed
\* out, setUserProfile(null)
onAuthStateChanged ==
    /\ auth.events # <<>>
    /\ IF Head(auth.events) = NoUser
       THEN /\ auth' = [auth EXCEPT !.events = Tail(@),
                                    !.contextUser = NoUser]
            /\ userProfile' = NoProfile
            /\ EffectsRerun(NoUser)
       ELSE /\ auth' = [auth EXCEPT
                    !.events = Tail(@),
                    !.contextUser = Head(auth.events),
                    !.profileFetches = @ \cup {Head(auth.events)}]
            /\ UNCHANGED <<userProfile, clientsFetch, listFetch, clientList>>
    /\ UNCHANGED <<now, page, clientIdFromUrl, formData, items, clients,
                   loading, createReq, toast, repoVars, invoices, pending,
                   call, clientReq, settings, accountReq, dbUsers>>

\* the onAuthStateChanged callback after its await: getDoc resolved or
\* rejected, and setUserProfile gets the document or the fallback profile,
\* either with the uid of the user the callback was called with
getDocSettled(uid) ==
    /\ uid \in auth.profileFetches
    /\ auth' = [auth EXCEPT !.profileFetches = @ \ {uid}]
    /\ userProfile' = uid
    /\ EffectsRerun(uid)
    /\ UNCHANGED <<now, page, clientIdFromUrl, formData, items, clients,
                   loading, createReq, toast, repoVars, invoices, pending,
                   call, clientReq, settings, accountReq, dbUsers>>

\* AuthProvider.logout: signOut(auth), then setUserProfile(null)
logout ==
    /\ accountReq = NoReq
    /\ auth.currentUser # NoUser
    /\ Len(auth.events) < MaxEvents
    /\ auth' = [auth EXCEPT !.currentUser = NoUser,
                            !.events = Append(@, NoUser)]
    /\ userProfile' = NoProfile
    /\ EffectsRerun(NoUser)
    /\ UNCHANGED <<now, page, clientIdFromUrl, formData, items, clients,
                   loading, createReq, toast, repoVars, invoices, pending,
                   call, clientReq, settings, accountReq, dbUsers>>

(* --------------------- the overdue views ------------------------------- *)

\* the keys of the filter buttons of the card list
FilterKeys == {"all", "draft", "sent", "paid", "overdue"}

\* InvoiceList (card list): invoices.filter by filterStatus
filteredInvoices(invs, filterStatus, today) ==
    SelectSeq(invs, LAMBDA invoice :
        IF filterStatus = "all" THEN TRUE
        ELSE IF filterStatus = "overdue"
        THEN invoice.status # "paid" /\ invoice.dueDate < today
        ELSE invoice.status = filterStatus)

\* InvoiceList (table): the filter buttons set the filter value of the
\* status column, whose filterFn 'equals' keeps the rows with
\* row.getValue('status') === filterValue
statusOptions == {"draft", "sent", "paid", "overdue"}
getFilteredRowModel(invs, filterValue) ==
    SelectSeq(invs, LAMBDA invoice : invoice.status = filterValue)

\* Dashboard: overdueInvoices
overdueInvoices(invs, today) ==
    SelectSeq(invs, LAMBDA inv : inv.status # "paid" /\ inv.dueDate < today)

(* ------------------------ generateInvoicePDF --------------------------- *)

\* a || b on strings (undefined and '' are both falsy)
Or(a, b) == IF a # "" THEN a ELSE b

\* Number.prototype.toString for a number with a finite decimal expansion
RECURSIVE FractionDigits(_, _, _)
FractionDigits(rem, den, k) ==
    IF rem = 0 \/ k = 0 THEN ""
    ELSE ToString((rem * 10) \div den) \o
         FractionDigits((rem * 10) % den, den, k - 1)
NumberToString(r) ==
    LET a == Abs(r.n)
        sign == IF r.n < 0 THEN "-" ELSE ""
    IN  IF a % r.d = 0 THEN sign \o ToString(a \div r.d)
        ELSE sign \o ToString(a \div r.d) \o "." \o
             FractionDigits(a % r.d, r.d, 17)

\* Number.prototype.toFixed(2): the nearest multiple of 1/100, the larger one
\* on a tie, written with two fraction digits
toFixed2(r) ==
    LET a == Abs(r.n)
        n == (2 * 100 * a + r.d) \div (2 * r.d)
        cents == n % 100
    IN  (IF r.n < 0 THEN "-" ELSE "") \o ToString(n \div 100) \o "." \o
        (IF cents < 10 THEN "0" ELSE "") \o ToString(cents)

\* the currency prefix of the template literals (the rupee sign)
Rupee == "Rs"

\* `${value}` of a form value: a number, or the text of an input
TemplateText(v) == IF v.val = <<>> THEN "" ELSE NumberToString(v.val[1])

\* date-fns format(date, 'MMM dd, yyyy'); <<>> is an absent date, for which
\* format throws RangeError('Invalid time value')
ValidDate(date) == date # <<>>
format(date) == "day " \o ToString(IsoDate(date[1]))

\* an entry of a stack: an object { text, style } or a plain string
Label(text) == [text |-> text, style |-> "label"]
Line(text) == [text |-> text, style |-> "none"]
\* Boolean(entry): an object is truthy, a string is truthy unless empty
Truthy(entry) == entry.style # "none" \/ entry.text # ""
FilterBoolean(stack) == SelectSeq(stack, Truthy)

\* the 'From' column
FromStack(profile) ==
    FilterBoolean(<<
        Label("From:"),
        Line(Or(Or(profile.businessName, profile.displayName), "")),
        Line(Or(profile.address, "")),
        Line(IF profile.phone # ""
             THEN "Phone: " \o profile.phone ELSE ""),
        Line(IF profile.email # ""
             THEN "Email: " \o profile.email ELSE ""),
        Line(IF profile.website # ""
             THEN "Website: " \o profile.website ELSE ""),
        Line(IF profile.businessName # "" /\ profile.address # ""
             THEN "GSTIN: " \o Or(profile.gstin, "N/A") ELSE "")>>)

\* as ToStack, without the filter
ToStackUnfiltered(invoice) ==
    <<Label("To:"),
      Line(invoice.client.name),
      Line(invoice.client.address),
      Line(invoice.client.email),
      Line(IF invoice.client.phone # ""
           THEN "Phone: " \o invoice.client.phone ELSE ""),
      Line(IF invoice.client.gstin # ""
           THEN "GSTIN: " \o invoice.client.gstin ELSE "")>>

\* the 'To' column
ToStack(invoice) ==
    FilterBoolean(<<
        Label("To:"),
        Line(invoice.client.name),
        Line(invoice.client.address),
        Line(invoice.client.email),
        Line(IF invoice.client.phone # ""
             THEN "Phone: " \o invoice.client.phone ELSE ""),
        Line(IF invoice.client.gstin # ""
             THEN "GSTIN: " \o invoice.client.gstin ELSE "")>>)

TableHeader == <<"Description", "Qty", "Rate", "Amount">>

\* as ItemRow, with the amount computed from quantity and rate
ItemRowRecomputed(item) ==
    <<item.description,
      NumberToString(item.quantity),
      Rupee \o toFixed2(item.rate),
      Rupee \o toFixed2(Times(item.quantity, item.rate))>>

\* invoice.items.map(item => [...])
ItemRow(item) ==
    <<item.description,
      NumberToString(item.quantity),
      Rupee \o toFixed2(item.rate),
      Rupee \o toFixed2(item.amount)>>

\* table.body of the items table
ItemsTableBody(invoice) ==
    <<TableHeader>> \o [i \in 1..Len(invoice.items) |-> ItemRow(invoice.items[i])]

\* table.body of the totals
TotalsBody(invoice) ==
    <<  <<"Subtotal:", Rupee \o toFixed2(invoice.subtotal)>>,
        <<"Tax (" \o TemplateText(invoice.taxRate) \o "%):",
          Rupee \o toFixed2(invoice.taxAmount)>>,
        <<"Total:", Rupee \o toFixed2(invoice.total)>>  >>

\* as NotesNode, emitting the block whatever the notes are
NotesNodeAlways(invoice) ==
    [node |-> "text", body |-> <<Label("Notes:\n"), Line(invoice.notes)>>]

\* invoice.notes ? { text: [{ text: 'Notes:\n', style: 'label' }, notes] } : {}
NotesNode(invoice) ==
    IF invoice.notes # ""
    THEN [node |-> "text", body |-> <<Label("Notes:\n"), Line(invoice.notes)>>]
    ELSE [node |-> "empty", body |-> <<>>]

\* docDefinition.content
Content(invoice, profile) ==
    <<  [node |-> "columns",
         body |-> <<Or(Or(profile.businessName, profile.displayName),
                       "Your Business"),
                    "Invoice #" \o invoice.invoiceNumber>>],
        [node |-> "columns",
         body |-> <<FromStack(profile), ToStack(invoice)>>],
        [node |-> "columns",
         body |-> <<"Issue Date: " \o format(invoice.issueDate),
                    "Due Date: " \o format(invoice.dueDate)>>],
        [node |-> "table", body |-> ItemsTableBody(invoice)],
        [node |-> "columns", body |-> TotalsBody(invoice)],
        NotesNode(invoice)  >>

\* the promise of generateInvoicePDF: it rejects when the executor throws
generateInvoicePDF(invoice, profile) ==
    IF ValidDate(invoice.issueDate) /\ ValidDate(invoice.dueDate)
    THEN [state |-> "fulfilled", content |-> Content(invoice, profile)]
    ELSE [state |-> "rejected", content |-> <<>>]

(* ------------- the repository functions, called by any user ------------ *)

\* what a call of the repository leaves alone: the pages of this tab
pageVars == <<now, userProfile, page, clientIdFromUrl, editorVars, createReq,
              toast, listVars, clientsVars, accountVars>>

\* createInvoice(userId, invoiceData), resolved
callCreateInvoice(userId, invoiceData) ==
    /\ nextDocId <= MaxInvoices
    /\ dbInvoices' = dbInvoices @@
            (nextDocId :> createInvoiceDoc(userId, invoiceData))
    /\ nextDocId' = nextDocId + 1
    /\ call' = [fn |-> "createInvoice", userId |-> userId,
                data |-> invoiceData, id |-> nextDocId]
    /\ UNCHANGED <<pageVars, dbClients>>

\* createClient(userId, clientData), resolved
callCreateClient(userId, clientData) ==
    /\ \E id \in NewClientIds \ DOMAIN dbClients :
          /\ dbClients' = dbClients @@
                (id :> createClientDoc(userId, clientData))
          /\ call' = [fn |-> "createClient", userId |-> userId,
                      data |-> clientData, id |-> id]
    /\ UNCHANGED <<pageVars, dbInvoices, nextDocId>>

\* updateInvoice(invoiceId, data), resolved: no user id is passed or compared
callUpdateInvoice(invoiceId, data) ==
    /\ invoiceId \in DOMAIN dbInvoices
    /\ dbInvoices' = [dbInvoices EXCEPT
            ![invoiceId] = updateInvoiceDoc(@, data)]
    /\ call' = [fn |-> "updateInvoice", id |-> invoiceId, data |-> data]
    /\ UNCHANGED <<pageVars, dbClients, nextDocId>>

\* updateClient(clientId, data), resolved
callUpdateClient(clientId, data) ==
    /\ clientId \in DOMAIN dbClients
    /\ dbClients' = [dbClients EXCEPT ![clientId] = updateClientDoc(@, data)]
    /\ call' = [fn |-> "updateClient", id |-> clientId, data |-> data]
    /\ UNCHANGED <<pageVars, dbInvoices, nextDocId>>

\* deleteInvoice(invoiceId), resolved
callDeleteInvoice(invoiceId) ==
    /\ dbInvoices' = [k \in DOMAIN dbInvoices \ {invoiceId} |-> dbInvoices[k]]
    /\ call' = [fn |-> "deleteInvoice", id |-> invoiceId]
    /\ UNCHANGED <<pageVars, dbClients, nextDocId>>

\* deleteClient(clientId), resolved
callDeleteClient(clientId) ==
    /\ dbClients' = [k \in DOMAIN dbClients \ {clientId} |-> dbClients[k]]
    /\ call' = [fn |-> "deleteClient", id |-> clientId]
    /\ UNCHANGED <<pageVars, dbInvoices, nextDocId>>

\* invoices.reduce((sum, invoice) => sum + (invoice.total || 0), 0)
RECURSIVE ReduceTotal(_, _)
ReduceTotal(sum, invs) ==
    IF invs = <<>> THEN sum
    ELSE ReduceTotal(Plus(sum, IF "total" \in DOMAIN Head(invs)
                               THEN Head(invs).total ELSE Zero),
                     Tail(invs))

\* invoices.filter(invoice => invoice.status === status).length
CountStatus(invs, status) ==
    Cardinality({i \in 1..Len(invs) : invs[i].status = status})

\* getUserStats(userId): the counts over the user's clients and invoices
getUserStats(userId) ==
    LET clientIds == {k \in DOMAIN dbClients : dbClients[k].userId = userId}
        ids == SeqOf({k \in DOMAIN dbInvoices :
                        dbInvoices[k].userId = userId})
        invs == [i \in 1..Len(ids) |-> dbInvoices[ids[i]]]
    IN  [clientCount |-> Cardinality(clientIds),
         invoiceCount |-> Len(invs),
         totalInvoiced |-> ReduceTotal(Zero, invs),
         paidInvoices |-> CountStatus(invs, "paid"),
         pendingInvoices |-> CountStatus(invs, "pending")]

\* Dashboard: invoices.filter(inv => inv.status === 'sent')
pendingInvoices(invs) ==
    SelectSeq(invs, LAMBDA inv : inv.status = "sent")

\* getUserStats(userId), resolved
callGetUserStats(userId) ==
    /\ call' = [fn |-> "getUserStats", userId |-> userId,
                result |-> getUserStats(userId)]
    /\ UNCHANGED stateVars

\* getInvoices(userId), resolved
callGetInvoices(userId) ==
    /\ call' = [fn |-> "getInvoices", userId |-> userId,
                result |-> getInvoices(userId)]
    /\ UNCHANGED stateVars

\* getClients(userId), resolved
callGetClients(userId) ==
    /\ call' = [fn |-> "getClients", userId |-> userId,
                result |-> getClients(userId)]
    /\ UNCHANGED stateVars

(* -------------------- calls of the pure helpers ------------------------ *)

callCalculateInvoiceTotals(its, taxRate) ==
    /\ call' = [fn |-> "calculateInvoiceTotals", items |-> its,
                taxRate |-> taxRate,
                result |-> calculateInvoiceTotals(its, taxRate)]
    /\ UNCHANGED stateVars

callIsInvoiceOverdue(invoice) ==
    /\ call' = [fn |-> "isInvoiceOverdue", invoice |-> invoice, at |-> now,
                result |-> isInvoiceOverdue(invoice, now)]
    /\ UNCHANGED stateVars

callFilteredInvoices(invs, filterStatus) ==
    /\ call' = [fn |-> "filteredInvoices", invoices |-> invs,
                filter |-> filterStatus, at |-> now,
                result |-> filteredInvoices(invs, filterStatus, now)]
    /\ UNCHANGED stateVars

callGetFilteredRowModel(invs, filterValue) ==
    /\ call' = [fn |-> "getFilteredRowModel", invoices |-> invs,
                filter |-> filterValue, at |-> now,
                result |-> getFilteredRowModel(invs, filterValue)]
    /\ UNCHANGED stateVars

callOverdueInvoices(invs) ==
    /\ call' = [fn |-> "overdueInvoices", invoices |-> invs,
                filter |-> "overdue", at |-> now,
                result |-> overdueInvoices(invs, now)]
    /\ UNCHANGED stateVars

callGenerateInvoicePDF(invoice, profile) ==
    /\ call' = [fn |-> "generateInvoicePDF", invoice |-> invoice,
                userProfile |-> profile,
                result |-> generateInvoicePDF(invoice, profile)]
    /\ UNCHANGED stateVars

(* --------------------------- input sets -------------------------------- *)

\* texts typed into the editor
Descriptions == {"", "Design"}
\* parseFloat(e.target.value) || 0
Quantities == {Zero, Num(1)}
Rates == {Zero, Rat(3, 2)}
\* e.target.value of the tax-rate input
TaxRateTexts == {JsString(<<>>), JsString(<<Rat(25, 2)>>)}
\* ?clientId= of the URL: absent, a stored client, an unknown id
UrlClientIds == {"", "c1", "c9"}
\* the options of the client <select>
ClientOptions(cs) == {""} \cup {cs[i].id : i \in 1..Len(cs)}
\* days picked in the due-date input
DueDays == {1}

(* ----------------------- the create flow: Spec ------------------------- *)

\* CreateInvoice has just mounted at /invoices/create[?clientId=...]
InitEditor ==
    /\ now = DateOf(1)
    /\ userProfile \in {NoProfile} \cup Users
    /\ page = "create"
    /\ clientIdFromUrl \in UrlClientIds
    /\ formData = InitialFormData(clientIdFromUrl)
    /\ items = InitialItems
    /\ clients = <<>>
    /\ clientsFetch = IF userProfile = NoProfile THEN "idle" ELSE "pending"
    /\ loading = FALSE
    /\ createReq = NoReq
    /\ toast = ""
    /\ dbClients = InitialClients
    /\ dbInvoices = <<>>
    /\ nextDocId = 1
    /\ invoices = <<>>
    /\ listFetch = "idle"
    /\ pending = {}
    /\ call = NoCall
    /\ InitOtherPages

\* the user's input while no submit is awaiting its reply
EditorInput ==
    \/ \E v \in ClientOptions(clients) : handleChange("clientId", v)
    \/ \E v \in TaxRateTexts : handleChange("taxRate", v)
    \/ \E i \in 1..MaxItems, v \in Descriptions :
            handleItemChange(i, "description", v)
    \/ \E i \in 1..MaxItems, v \in Quantities : handleItemChange(i, "quantity", v)
    \/ \E i \in 1..MaxItems, v \in Rates : handleItemChange(i, "rate", v)
    \/ addItem
    \/ \E i \in 1..MaxItems : removeItem(i)
    \/ handleSubmit

NextEditor ==
    \/ \E uid \in Users : ProfileLoaded(uid)
    \/ Tick
    \/ fetchClientsDone
    \/ createReq = NoReq /\ EditorInput
    \/ createInvoice
    \/ createInvoiceResolved
    \/ createInvoiceRejected

SpecEditor == InitEditor /\ [][NextEditor]_vars

(* ------------------- the invoice lifecycle: SpecApp -------------------- *)

\* the application has just started on /dashboard, the profile not yet loaded
InitApp ==
    /\ now = DateOf(1)
    /\ userProfile = NoProfile
    /\ page = "dashboard"
    /\ clientIdFromUrl = ""
    /\ formData = NoForm
    /\ items = <<>>
    /\ clients = <<>>
    /\ clientsFetch = "idle"
    /\ loading = FALSE
    /\ createReq = NoReq
    /\ toast = ""
    /\ dbClients = InitialClients
    /\ dbInvoices = <<>>
    /\ nextDocId = 1
    /\ invoices = <<>>
    /\ listFetch = "idle"
    /\ pending = {}
    /\ call = NoCall
    /\ InitOtherPages

\* the create flow with one way of filling the form in
AppEditorInput ==
    \/ handleItemChange(1, "description", "Design")
    \/ handleItemChange(1, "rate", Rat(3, 2))
    \/ \E d \in DueDays : handleChange("dueDate", d)
    \/ handleSubmit

\* the user's input on the list while no handler is awaiting its reply
AppListInput ==
    \/ \E id \in Shown, st \in StatusOptions : handleStatusChange(id, st)
    \/ \E id \in Shown : handleDelete(id)
    \/ \E id \in Shown : handleDownloadPDF(id)
    \/ \E id \in Shown : handleSendEmail(id)

NextApp ==
    \/ \E uid \in Users : ProfileLoaded(uid)
    \/ Tick
    \/ OpenCreate("c1")
    \/ OpenList
    \/ OpenDashboard
    \/ fetchClientsDone
    \/ createReq = NoReq /\ AppEditorInput
    \/ createInvoice
    \/ createInvoiceResolved
    \/ createInvoiceRejected
    \/ fetchInvoicesDone
    \/ pending = {} /\ AppListInput
    \/ \E o \in pending : updateInvoice(o)
    \/ \E o \in pending : deleteInvoice(o)
    \/ \E o \in pending : handlerResumed(o)

SpecApp == InitApp /\ [][NextApp]_vars

(* --------------------- the pure helpers: SpecHelpers ------------------- *)

Item(id, quantity, rate, amount) ==
    [id |-> id, description |-> "Design", quantity |-> Num(quantity),
     rate |-> Num(rate), amount |-> amount]

\* items handed to calculateInvoiceTotals; the amount of "d" is stale
HelperItems ==
    {Item("a", 10, 500, Num(5000)), Item("b", 2, 100, Num(200)),
     Item("c", 1, 50, Num(50)), Item("d", 2, 3, Num(5)),
     Item("e", 1, 1, Rat(1, 2))}

RECURSIVE SeqsUpTo(_, _)
SeqsUpTo(S, n) ==
    IF n = 0 THEN {<<>>}
    ELSE LET shorter == SeqsUpTo(S, n - 1)
         IN  shorter \cup {Append(q, x) : q \in shorter, x \in S}

HelperTaxRates == {Zero, Rat(18, 100), Num(1)}

\* the statuses of the type InvoiceStatus
InvoiceStatus == {"draft", "sent", "paid", "overdue"}

HelperInvoices ==
    [status : InvoiceStatus, dueDate : 0..MaxTime]

InitHelpers == InitApp

NextHelpers ==
    \/ Tick
    \/ \E its \in SeqsUpTo(HelperItems, MaxItems), r \in HelperTaxRates :
            callCalculateInvoiceTotals(its, r)
    \/ \E inv \in HelperInvoices : callIsInvoiceOverdue(inv)

SpecHelpers == InitHelpers /\ [][NextHelpers]_vars

(* --------------------- the clients page: SpecClients ------------------- *)

\* what the user types into the fields of ClientForm
ClientNames == {"", "Asha Ltd"}
ClientEmails == {"a@x.in"}
ClientAddresses == {"Pune"}

\* the invoice form filled in one way, for the first invoice only
ClientsEditorInput ==
    \/ handleItemChange(1, "description", "Design")
    \/ handleItemChange(1, "rate", Rat(3, 2))
    \/ handleSubmit

\* the user's input on the clients page while no call awaits its reply
ClientsInput ==
    \/ ShowAddForm
    \/ \E i \in 1..Len(clientList.clients) : handleEdit(clientList.clients[i])
    \/ ClientForm_onCancel
    \/ \E v \in ClientNames : ClientForm_handleChange("name", v)
    \/ \E v \in ClientEmails : ClientForm_handleChange("email", v)
    \/ \E v \in ClientAddresses : ClientForm_handleChange("address", v)
    \/ ClientForm_handleSubmit
    \/ \E i \in 1..Len(clientList.clients) :
            ClientList_handleDelete(clientList.clients[i].id)

NextClients ==
    \/ \E uid \in Users : ProfileLoaded(uid)
    \/ OpenCreate("c1")
    \/ fetchClientsDone
    \/ createReq = NoReq /\ dbInvoices = <<>> /\ ClientsEditorInput
    \/ createInvoice
    \/ createInvoiceResolved
    \/ createInvoiceRejected
    \/ OpenClients
    \/ ClientList_fetchClientsDone
    \/ clientReq = NoReq /\ ClientsInput
    \/ createClient
    \/ updateClient
    \/ deleteClient
    \/ ClientForm_handleSubmitResumed
    \/ ClientList_handleDeleteResumed

SpecClients == InitApp /\ [][NextClients]_vars

(* --------------------- the overdue views: SpecFilters ------------------ *)

\* invoices due before the first tick or at the last one, unpaid or paid
FilterInvoices ==
    [status : {"sent", "paid"}, dueDate : {DateOf(1) - 1, MaxTime}]

\* the invoice lists handed to the views
FilterInvoiceLists == SeqsUpTo(FilterInvoices, MaxInvoices)

NextFilters ==
    \/ Tick
    \/ \E invs \in FilterInvoiceLists, f \in FilterKeys :
            callFilteredInvoices(invs, f)
    \/ \E invs \in FilterInvoiceLists, f \in statusOptions :
            callGetFilteredRowModel(invs, f)
    \/ \E invs \in FilterInvoiceLists : callOverdueInvoices(invs)

SpecFilters == InitHelpers /\ [][NextFilters]_vars

(* ------------- every repository write call: SpecErrors ----------------- *)

\* the user's input on the invoice list while no handler awaits its reply
ErrorsListInput ==
    \/ \E id \in Shown : handleStatusChange(id, "paid")
    \/ \E id \in Shown : handleDelete(id)

\* the clients page and the create flow, with the invoice list
NextErrors ==
    \/ NextClients
    \/ fetchInvoicesDone
    \/ pending = {} /\ ErrorsListInput
    \/ \E o \in pending : updateInvoice(o)
    \/ \E o \in pending : deleteInvoice(o)
    \/ \E o \in pending : handlerResumed(o)

SpecErrors == InitApp /\ [][NextErrors]_vars

(* ----------------------- the renderer: SpecRenderer -------------------- *)

\* clients as embedded in an invoice, each field empty or not
RendererClients ==
    [id : {"c1"}, name : {"", "Asha"}, address : {"", "Pune"},
     email : {"", "a@x.in"}, phone : {"", "98"}, gstin : {"", "27AB"}]

\* issuer profiles, each optional field empty (or absent) or not
RendererProfiles ==
    [uid : {"u1"}, email : {"u1@x.in"}, displayName : {"", "Uma"},
     businessName : {"", "Acme"}, address : {"", "Goa"}, phone : {"", "91"},
     website : {"", "acme.in"}, gstin : {"", "29CD"}]

\* line items; the amount of "c" is stale, the amount of "b" needs rounding
RendererItems ==
    {[id |-> "a", description |-> "Design", quantity |-> Num(2),
      rate |-> Rat(3, 2), amount |-> Num(3)],
     [id |-> "b", description |-> "Hosting", quantity |-> Rat(1, 2),
      rate |-> Rat(1, 4), amount |-> Rat(1, 8)],
     [id |-> "c", description |-> "Logo", quantity |-> Num(1),
      rate |-> Num(5), amount |-> Num(7)]}

RendererInvoice(client, its, notes, issueDate) ==
    [id |-> 1, userId |-> "u1", invoiceNumber |-> "INV-1",
     clientId |-> client.id, client |-> client, items |-> its,
     subtotal |-> ReduceAmount(Zero, its), taxRate |-> JsNumber(Num(18)),
     taxAmount |-> Zero, total |-> ReduceAmount(Zero, its),
     status |-> "draft", issueDate |-> issueDate,
     dueDate |-> <<DateOf(1)>>, notes |-> notes]

DefaultClient ==
    [id |-> "c1", name |-> "Asha", address |-> "Pune", email |-> "a@x.in",
     phone |-> "98", gstin |-> "27AB"]
DefaultProfile ==
    [uid |-> "u1", email |-> "u1@x.in", displayName |-> "Uma",
     businessName |-> "Acme", address |-> "Goa", phone |-> "91",
     website |-> "acme.in", gstin |-> "29CD"]
DefaultItems == <<CHOOSE it \in RendererItems : it.id = "a">>

\* the invoices and profiles handed to generateInvoicePDF: every client with
\* one item, every profile, every item list with and without notes and
\* with and without an issue date
ClientInvoices ==
    {RendererInvoice(c, DefaultItems, "", <<DateOf(1)>>) : c \in RendererClients}
ItemInvoices ==
    {RendererInvoice(DefaultClient, its, notes, d) :
        its \in SeqsUpTo(RendererItems, MaxItems),
        notes \in {"", "Thanks"}, d \in {<<>>, <<DateOf(1)>>}}
DefaultInvoice == RendererInvoice(DefaultClient, DefaultItems, "", <<DateOf(1)>>)

NextRenderer ==
    \/ \E inv \in ClientInvoices : callGenerateInvoicePDF(inv, DefaultProfile)
    \/ \E p \in RendererProfiles : callGenerateInvoicePDF(DefaultInvoice, p)
    \/ \E inv \in ItemInvoices : callGenerateInvoicePDF(inv, DefaultProfile)

SpecRenderer == InitHelpers /\ [][NextRenderer]_vars

(* --------------------- account deletion: SpecAccount ------------------- *)

\* what the user types into the password input
PasswordTexts == {""} \cup {Password(u) : u \in Accounts}

\* the user's input on the settings page while no call awaits its reply
SettingsInput ==
    \/ ShowDeleteConfirm
    \/ ShowPasswordConfirm
    \/ \E v \in PasswordTexts : setPassword(v)
    \/ resetDeleteFlow
    \/ handleDeleteAccount

NextAccount ==
    \/ AuthStateChanged
    \/ \E u \in {NoUser} \cup Accounts : AuthChangedElsewhere(u)
    \/ OpenCreate("c1")
    \/ fetchClientsDone
    \/ createReq = NoReq /\ dbInvoices = <<>> /\ ClientsEditorInput
    \/ createInvoice
    \/ createInvoiceResolved
    \/ createInvoiceRejected
    \/ OpenSettings
    \/ accountReq = NoReq /\ SettingsInput
    \/ deleteUserAccountReauth
    \/ deleteUserAccountCommit
    \/ deleteUserAccountDeleteUser
    \/ handleDeleteAccountResumed

SpecAccount == InitApp /\ [][NextAccount]_vars

(* ----------------- several users at the repository: SpecOwnership ----- *)

\* invoice data of a create call, without and with a userId of its own
OwnershipInvoiceData ==
    {[status |-> "draft", clientId |-> "c1", total |-> Num(5)],
     [status |-> "draft", clientId |-> "c1", total |-> Num(5),
      userId |-> "u2"]}

\* client data of a create call, without and with a userId of its own
OwnershipClientData ==
    {[name |-> "Nila", email |-> "a@x.in", phone |-> "", address |-> "Pune",
      gstin |-> ""],
     [name |-> "Nila", email |-> "a@x.in", phone |-> "", address |-> "Pune",
      gstin |-> "", userId |-> "u1"]}

\* the data of an update call: the status of the invoice, or a userId
OwnershipInvoiceUpdates ==
    {[status |-> "sent"], [status |-> "paid"], [userId |-> "u2"]}

OwnershipClientUpdates == {[userId |-> "u1"]}

OwnershipInvoiceIds == 1..MaxInvoices

OwnershipClientIds == {"c3", "c4"}

NextOwnership ==
    \/ \E u \in Accounts, d \in OwnershipInvoiceData : callCreateInvoice(u, d)
    \/ \E u \in Accounts, d \in OwnershipClientData : callCreateClient(u, d)
    \/ \E id \in OwnershipInvoiceIds, d \in OwnershipInvoiceUpdates :
            callUpdateInvoice(id, d)
    \/ \E id \in OwnershipClientIds, d \in OwnershipClientUpdates :
            callUpdateClient(id, d)
    \/ \E id \in OwnershipInvoiceIds : callDeleteInvoice(id)
    \/ \E id \in OwnershipClientIds : callDeleteClient(id)
    \/ \E u \in Accounts : callGetInvoices(u)
    \/ \E u \in Accounts : callGetClients(u)
    \/ \E u \in Accounts : callGetUserStats(u)

SpecOwnership == InitApp /\ [][NextOwnership]_vars

(* ----------- handlers of the list in flight together: SpecConcurrent ---- *)

\* the user's input on the list, also while handlers await their replies
ConcurrentListInput ==
    \/ \E id \in Shown : handleStatusChange(id, "paid")
    \/ \E id \in Shown : handleDelete(id)

\* every repository call succeeds and every fetch resolves
NextConcurrent ==
    \/ \E uid \in Users : ProfileLoaded(uid)
    \/ OpenCreate("c1")
    \/ OpenList
    \/ fetchClientsDone /\ clients' # clients
    \/ createReq = NoReq /\ dbInvoices = <<>> /\ ClientsEditorInput
    \/ createInvoice /\ createReq'.phase = "ok"
    \/ createInvoiceResolved
    \/ fetchInvoicesDone /\ toast' = toast
    \/ Cardinality(pending) < MaxPending /\ ConcurrentListInput
    \/ \E o \in pending : updateInvoice(o) /\ Settle(o, "ok") \in pending'
    \/ \E o \in pending : deleteInvoice(o) /\ Settle(o, "ok") \in pending'
    \/ \E o \in pending : handlerResumed(o)

SpecConcurrent == InitApp /\ [][NextConcurrent]_vars

(* ------------------ the auth context: SpecAuth ------------------------- *)

NextAuth ==
    \/ \E u \in {NoUser} \cup Accounts : AuthChangedElsewhere(u)
    \/ logout
    \/ onAuthStateChanged
    \/ \E uid \in Accounts : getDocSettled(uid)
    \/ OpenCreate("")
    \/ OpenList
    \/ OpenClients
    \/ OpenSettings
    \/ fetchClientsDone
    \/ fetchInvoicesDone
    \/ ClientList_fetchClientsDone

SpecAuth == InitApp /\ [][NextAuth]_vars

(* ------ handlers in flight together, calls may fail: SpecListFailures --- *)

NextListFailures ==
    \/ \E uid \in Users : ProfileLoaded(uid)
    \/ OpenCreate("c1")
    \/ OpenList
    \/ fetchClientsDone
    \/ createReq = NoReq /\ dbInvoices = <<>> /\ ClientsEditorInput
    \/ createInvoice
    \/ createInvoiceResolved
    \/ createInvoiceRejected
    \/ fetchInvoicesDone
    \/ Cardinality(pending) < MaxPending /\ ConcurrentListInput
    \/ \E o \in pending : updateInvoice(o)
    \/ \E o \in pending : deleteInvoice(o)
    \/ \E o \in pending : handlerResumed(o)

SpecListFailures == InitApp /\ [][NextListFailures]_vars

(* ------------- the client of a new invoice: SpecSelect ----------------- *)

\* the editor opened with any ?clientId=, one way of filling the items in
NextSelect ==
    \/ \E uid \in Users : ProfileLoaded(uid)
    \/ fetchClientsDone
    \/ createReq = NoReq /\
         \E v \in ClientOptions(clients) : handleChange("clientId", v)
    \/ createReq = NoReq /\ ClientsEditorInput
    \/ createInvoice
    \/ createInvoiceResolved
    \/ createInvoiceRejected

SpecSelect == InitEditor /\ [][NextSelect]_vars

(* ------------------------------ claims --------------------------------- *)

\* the sum of the amount fields of the items at the indices S
RECURSIVE SumOver(_, _)
SumOver(its, S) ==
    IF S = {} THEN Zero
    ELSE LET i == CHOOSE j \in S : TRUE
         IN  Plus(its[i].amount, SumOver(its, S \ {i}))

SumOfAmounts(its) == SumOver(its, 1..Len(its))

\* C1: in every state of the line item editor, every item's amount equals
\* its quantity times its rate: handleItemChange recomputes amount in the
\* same update that sets quantity or rate, and addItem and removeItem keep it.
C1_AmountIsQuantityTimesRate ==
    \A i \in 1..Len(items) :
        items[i].amount = Times(items[i].quantity, items[i].rate)

\* an item whose rate and quantity were both edited to non-zero values
C1_Witness ==
    /\ page = "create"
    /\ \E i \in 1..Len(items) :
          /\ items[i].rate = Rat(3, 2)
          /\ items[i].amount = Rat(3, 2)
    /\ \E i \in 1..Len(items) :
          items[i].rate = Rat(3, 2) /\ items[i].quantity = Zero

\* C2: removeItem on a one-item list changes nothing, so the mounted editor
\* always holds at least one item: from a one-item list every step of the
\* editor leaves that item in first place.
C2_LastItemStays ==
    /\ [](page = "create" => Len(items) >= 1)
    /\ [][(page = "create" /\ page' = "create" /\ Len(items) = 1)
            => (Len(items') >= 1 /\ items'[1].id = items[1].id)]_vars

\* one item is left after the initial item was removed
C2_Witness ==
    /\ page = "create"
    /\ Len(items) = 1
    /\ items[1].id # "1"

ValidationToasts == {"Please select a client", "Please fill in all item details"}

FormInvalid ==
    \/ formData.clientId = ""
    \/ \E i \in 1..Len(items) :
          \/ items[i].description = ""
          \/ ~Greater(items[i].quantity, Zero)
          \/ ~Greater(items[i].rate, Zero)

\* C3: from a form with no client selected or with an item whose description
\* is empty or whose quantity or rate is not positive, no step issues a
\* createInvoice call or writes an invoice, and the submit that reports the
\* validation error leaves the items and the form fields as they were.
C3_NoCallOnInvalidForm ==
    [][/\ (page = "create" /\ FormInvalid)
            => (createReq' = createReq /\ dbInvoices' = dbInvoices)
       /\ (toast' # toast /\ toast' \in ValidationToasts)
            => (items' = items /\ formData' = formData /\
                createReq' = createReq /\ dbInvoices' = dbInvoices)]_vars

\* a submit was refused for an item with a description and a zero rate, with
\* a client selected and the profile and clients loaded
C3_Witness ==
    /\ page = "create"
    /\ toast = "Please fill in all item details"
    /\ formData.clientId = "c1"
    /\ FindClient(clients, "c1") # <<>>
    /\ \A i \in 1..Len(items) : items[i].description # ""
    /\ \E i \in 1..Len(items) : items[i].rate = Zero

\* C10: every stored invoice has subtotal equal to the sum of its items'
\* amount fields and total equal to subtotal plus taxAmount.
C10_StoredTotalsConsistent ==
    \A k \in DOMAIN dbInvoices :
        /\ dbInvoices[k].subtotal = SumOfAmounts(dbInvoices[k].items)
        /\ dbInvoices[k].total =
                Plus(dbInvoices[k].subtotal, dbInvoices[k].taxAmount)

\* an invoice stored with two items after an edit of the tax rate
C10_Witness ==
    \E k \in DOMAIN dbInvoices :
        /\ Len(dbInvoices[k].items) = 2
        /\ dbInvoices[k].taxRate = JsString(<<Rat(25, 2)>>)
        /\ dbInvoices[k].taxAmount = Rat(3, 8)

\* the items of its rearranged by the permutation p of its indices
Permuted(its, p) == [i \in 1..Len(its) |-> its[p[i]]]

C5_TaxAndTotal ==
    call.fn = "calculateInvoiceTotals" =>
        /\ call.result.taxAmount = Times(SumOfAmounts(call.items), call.taxRate)
        /\ call.result.total = Plus(SumOfAmounts(call.items), call.result.taxAmount)
        /\ call.items = <<>> => call.result.total = Zero
        /\ (SumOfAmounts(call.items) = Num(5000) /\ call.taxRate = Rat(18, 100))
              => (call.result.taxAmount = Num(900) /\ call.result.total = Num(5900))

\* the call of the example: one item of amount 5000 at rate 18/100
C5_Witness ==
    /\ call.fn = "calculateInvoiceTotals"
    /\ Len(call.items) = 1
    /\ call.items[1].amount = Num(5000)
    /\ call.taxRate = Rat(18, 100)
    /\ call.result.total = Num(5900)

\* C6: isInvoiceOverdue is true exactly when the status is not 'paid' and the
\* current time is strictly after the due date; it is false for 'paid' at any
\* time and false for every status at or before the due date.
C6_OverdueIffUnpaidAndPastDue ==
    call.fn = "isInvoiceOverdue" =>
        /\ call.result = TRUE <=>
              (call.invoice.status # "paid" /\ call.at > call.invoice.dueDate)
        /\ call.invoice.status = "paid" => call.result = FALSE
        /\ call.at <= call.invoice.dueDate => call.result = FALSE

\* a sent invoice asked about at its due instant, after the clock advanced
C6_Witness ==
    /\ call.fn = "isInvoiceOverdue"
    /\ call.invoice.status = "sent"
    /\ call.at = call.invoice.dueDate
    /\ call.at > DateOf(1)
    /\ call.result = FALSE

\* C7: every stored invoice has status draft, sent or paid.
C7_StoredStatusNeverOverdue ==
    \A k \in DOMAIN dbInvoices : dbInvoices[k].status \in {"draft", "sent", "paid"}

\* two stored invoices, one set to paid and past its due date, one a draft
C7_Witness ==
    /\ \E k \in DOMAIN dbInvoices :
          dbInvoices[k].status = "paid" /\ now > dbInvoices[k].dueDate
    /\ \E k \in DOMAIN dbInvoices : dbInvoices[k].status = "draft"

\* C8: the stored status of an invoice changes only in the step in which the
\* repository applies the updateInvoice call sent by handleStatusChange for
\* that invoice and that status; every other step (the e-mail, the PDF, a
\* reload, the clock) leaves every stored status as it was.
C8_StatusChangesOnlyByStatusChange ==
    [][\A k \in (DOMAIN dbInvoices) \cap (DOMAIN dbInvoices') :
          dbInvoices'[k].status # dbInvoices[k].status =>
              \E o \in pending :
                  /\ o.op = "updateInvoice" /\ o.phase = "sent"
                  /\ o.id = k /\ o.status = dbInvoices'[k].status]_vars

\* a draft past its due date, still a draft after the e-mail was opened
C8_Witness ==
    /\ page = "list"
    /\ toast = "Email client opened with invoice details"
    /\ \E i \in 1..Len(invoices) :
          /\ invoices[i].id \in DOMAIN dbInvoices
          /\ dbInvoices[invoices[i].id].status = "draft"
          /\ now > dbInvoices[invoices[i].id].dueDate

\* C9: every displayed invoice can be set to each of draft, sent and paid,
\* and the repository can apply each such change to a stored invoice
\* whatever its stored status is.
C9_AnyStatusToAnyStatus ==
    /\ (page = "list" /\ pending = {}) =>
          \A id \in Shown, t \in {"draft", "sent", "paid"} :
              ENABLED handleStatusChange(id, t)
    /\ \A o \in pending :
          (o.op = "updateInvoice" /\ o.phase = "sent" /\ o.id \in DOMAIN dbInvoices)
              => ENABLED (updateInvoice(o) /\ dbInvoices'[o.id].status = o.status)

\* a paid invoice was set back to draft
C9_Witness ==
    \E o \in pending :
        /\ o.op = "updateInvoice" /\ o.phase = "ok" /\ o.status = "draft"
        /\ \E i \in 1..Len(o.closure) :
              o.closure[i].id = o.id /\ o.closure[i].status = "paid"
        /\ o.id \in DOMAIN dbInvoices
        /\ dbInvoices[o.id].status = "draft"

(* ------------------------- tax-rate unit ------------------------------- *)

\* C11: for every invoice stored by the create flow, the stored taxAmount is
\* the stored subtotal times the stored taxRate, that is the taxAmount that
\* calculateInvoiceTotals gives for the stored items and the stored taxRate.
C11_StoredTaxAmountIsSubtotalTimesTaxRate ==
    \A k \in DOMAIN dbInvoices :
        LET inv == dbInvoices[k]
        IN  /\ inv.taxAmount = Times(inv.subtotal, ToNumber(inv.taxRate))
            /\ inv.taxAmount =
                  calculateInvoiceTotals(inv.items, ToNumber(inv.taxRate)).taxAmount

(* --------------------------- item ids ---------------------------------- *)

\* C12: addItem appends exactly one item, with quantity 1, rate 0, amount 0
\* and an id no existing item has, and leaves the existing items as they
\* were and in their order; after any sequence of addItem and removeItem
\* the ids of the items are pairwise distinct.
C12_ItemIdsDistinct ==
    /\ \A i, j \in 1..Len(items) : items[i].id = items[j].id => i = j
    /\ ENABLED addItem =>
          /\ NewItem.quantity = Num(1) /\ NewItem.rate = Zero
          /\ NewItem.amount = Zero
          /\ \A i \in 1..Len(items) : items[i].id # NewItem.id

(* ------------------------ client snapshot ------------------------------ *)

\* C13: the client embedded in a stored invoice is a snapshot: every step of
\* the clients page, in particular updateClient and deleteClient applied to
\* the client the invoice was created for, leaves every stored invoice in
\* place with all its fields, the embedded client included.
C13_InvoiceKeepsClientSnapshot ==
    [][\A k \in DOMAIN dbInvoices :
          /\ k \in DOMAIN dbInvoices'
          /\ dbInvoices'[k] = dbInvoices[k]]_vars

\* an invoice created for client c1 while it was named Asha; c1 was then
\* renamed (the list the delete handler saw shows the new name) and deleted
C13_Witness ==
    /\ "c1" \notin DOMAIN dbClients
    /\ clientReq # NoReq
    /\ clientReq.op = "deleteClient" /\ clientReq.phase = "ok"
    /\ clientReq.id = "c1"
    /\ \E i \in 1..Len(clientReq.closure) :
          /\ clientReq.closure[i].id = "c1"
          /\ clientReq.closure[i].name = "Asha Ltd"
    /\ \E k \in DOMAIN dbInvoices :
          /\ dbInvoices[k].clientId = "c1"
          /\ dbInvoices[k].client.id = "c1"
          /\ dbInvoices[k].client.name = "Asha"

(* ------------------------ the overdue filter --------------------------- *)

\* C14: the 'overdue' filter of an invoice list shows exactly the invoices
\* for which the derived overdue condition holds (isInvoiceOverdue: stored
\* status not paid and due date passed), whatever their stored status, and
\* as many as the dashboard counts as overdue for the same invoices.
C14_OverdueFilterIsDerived ==
    (call.fn \in {"filteredInvoices", "getFilteredRowModel"}
        /\ call.filter = "overdue")
    => /\ call.result =
            SelectSeq(call.invoices,
                      LAMBDA inv : isInvoiceOverdue(inv, call.at))
       /\ Len(call.result) = Len(overdueInvoices(call.invoices, call.at))

(* ----------------------- persistence errors ---------------------------- *)

\* the message of the Error each repository function throws on failure
ThrownMessage ==
    [op \in {"createInvoice", "updateInvoice", "deleteInvoice",
             "createClient", "updateClient", "deleteClient"} |->
        CASE op = "createInvoice" -> "Failed to create invoice"
          [] op = "updateInvoice" -> "Failed to update invoice"
          [] op = "deleteInvoice" -> "Failed to delete invoice"
          [] op = "createClient" -> "Failed to create client"
          [] op = "updateClient" -> "Failed to update client"
          [] op = "deleteClient" -> "Failed to delete client"]

\* the error notification of the call site of each repository function
ErrorToast ==
    [op \in DOMAIN ThrownMessage |->
        CASE op = "createInvoice" -> "Failed to create invoice"
          [] op = "updateInvoice" -> "Failed to update status"
          [] op = "deleteInvoice" -> "Failed to delete invoice"
          [] op \in {"createClient", "updateClient"} -> "Failed to save client"
          [] op = "deleteClient" -> "Failed to delete client"]

\* call c was rejected
Rejected(c) == c # NoReq /\ c.phase = "failed"

\* no repository call is started or restarted in the step
NoNewCall ==
    /\ createReq' \in {createReq, NoReq}
    /\ clientReq' \in {clientReq, NoReq}
    /\ pending' \subseteq pending

\* C15: every rejected create, update or delete call of the repository
\* carries an Error with the fixed message of its operation; the step in
\* which the call site takes the rejection up shows the error notification
\* of that call site, starts no repository call (no retry) and writes
\* nothing; a rejection leaves the scene in no other way.
C15_FailuresAreSurfacedNotRetried ==
    /\ [](/\ Rejected(createReq) => createReq.error = ThrownMessage[createReq.op]
          /\ Rejected(clientReq) => clientReq.error = ThrownMessage[clientReq.op]
          /\ \A o \in pending : Rejected(o) => o.error = ThrownMessage[o.op])
    /\ [][/\ (Rejected(createReq) /\ createReq' # createReq)
                => /\ toast' = ErrorToast[createReq.op]
                   /\ NoNewCall /\ UNCHANGED repoVars
          /\ (Rejected(clientReq) /\ clientReq' # clientReq)
                => /\ toast' = ErrorToast[clientReq.op]
                   /\ NoNewCall /\ UNCHANGED repoVars
          /\ \A o \in pending : (Rejected(o) /\ o \notin pending')
                => /\ toast' = ErrorToast[o.op]
                   /\ NoNewCall /\ UNCHANGED repoVars]_vars

\* the status change of a shown invoice was rejected and reported, nothing
\* is in flight, and the stored and the shown status are as before
C15_Witness ==
    /\ page = "list"
    /\ toast = "Failed to update status"
    /\ createReq = NoReq /\ clientReq = NoReq /\ pending = {}
    /\ \E i \in 1..Len(invoices) :
          /\ invoices[i].id \in DOMAIN dbInvoices
          /\ invoices[i].status = "draft"
          /\ dbInvoices[invoices[i].id].status = "draft"

(* --------------------------- the renderer ------------------------------ *)

\* a call of generateInvoicePDF that produced a document
Rendered == call.fn = "generateInvoicePDF" /\ call.result.state = "fulfilled"

\* the two stacks of the party block, the item table and the last node of
\* the rendered document
FromBlock == call.result.content[2].body[1]
ToBlock == call.result.content[2].body[2]
ItemTable == call.result.content[4].body
LastNode == call.result.content[Len(call.result.content)]

\* stack holds the label and then, in the order of `fields`, the line
\* `texts[i]` of every non-empty field i, and nothing else
LinesOfNonEmpty(stack, label, fields, texts) ==
    LET kept == {i \in 1..Len(fields) : fields[i] # ""}
    IN  /\ Len(stack) = 1 + Cardinality(kept)
        /\ stack[1] = [text |-> label, style |-> "label"]
        /\ \A i \in kept :
              stack[1 + Cardinality({j \in kept : j <= i})] =
                  [text |-> texts[i], style |-> "none"]

\* C16: the 'To' block of a rendered document holds, after its label,
\* exactly the lines of the non-empty fields among name, address, email,
\* phone and gstin, in that order; for a client with no phone and no gstin
\* these are exactly the three lines name, address, email, none blank.
C16_ToBlockOmitsEmptyLines ==
    Rendered =>
        LET c == call.invoice.client
        IN  /\ LinesOfNonEmpty(ToBlock, "To:",
                    <<c.name, c.address, c.email, c.phone, c.gstin>>,
                    <<c.name, c.address, c.email,
                      "Phone: " \o c.phone, "GSTIN: " \o c.gstin>>)
            /\ (c.phone = "" /\ c.gstin = "" /\ c.name # "" /\
                c.address # "" /\ c.email # "")
                => /\ Len(ToBlock) = 4
                   /\ <<ToBlock[2].text, ToBlock[3].text, ToBlock[4].text>> =
                          <<c.name, c.address, c.email>>
            /\ \A i \in 1..Len(ToBlock) : ToBlock[i].text # ""

\* a document rendered for a client with a name, an address and an e-mail
\* and neither phone nor gstin
C16_Witness ==
    /\ Rendered
    /\ call.invoice.client.phone = "" /\ call.invoice.client.gstin = ""
    /\ call.invoice.client.name # "" /\ call.invoice.client.address # ""
    /\ call.invoice.client.email # ""
    /\ Len(ToBlock) = 4

\* C17: in the 'From' block of a rendered document no line stands for an
\* empty issuer field: no entry is blank or a prefix without a value, and a
\* GSTIN line is there only if the issuer has a non-empty gstin.
C17_FromBlockOmitsEmptyLines ==
    Rendered =>
        LET p == call.userProfile
        IN  /\ \A i \in 1..Len(FromBlock) :
                  FromBlock[i].text \notin {"", "Phone: ", "Email: ", "Website: "}
            /\ (\E i \in 1..Len(FromBlock) :
                    FromBlock[i].text \in {"GSTIN: N/A", "GSTIN: " \o p.gstin})
                => p.gstin # ""

\* C18: the item table of a rendered document has one header row and then
\* one row per item of the invoice, in the order of the items, showing the
\* item's stored description, quantity, rate and amount.
C18_OneRowPerItem ==
    Rendered =>
        LET its == call.invoice.items
        IN  /\ Len(ItemTable) = Len(its) + 1
            /\ ItemTable[1] = <<"Description", "Qty", "Rate", "Amount">>
            /\ \A i \in 1..Len(its) :
                  ItemTable[i + 1] =
                      <<its[i].description,
                        NumberToString(its[i].quantity),
                        "Rs" \o toFixed2(its[i].rate),
                        "Rs" \o toFixed2(its[i].amount)>>

\* a document rendered for two different items, the second with an amount
\* that is not quantity times rate; its row shows the stored amount 7.00
C18_Witness ==
    /\ Rendered
    /\ Len(call.invoice.items) = 2
    /\ call.invoice.items[1].id = "b" /\ call.invoice.items[2].id = "c"
    /\ ItemTable[2] = <<"Hosting", "0.5", "Rs0.25", "Rs0.13">>
    /\ ItemTable[3] = <<"Logo", "1", "Rs5.00", "Rs7.00">>

\* C19: a rendered document holds a notes block (the label 'Notes:' and the
\* notes text) if and only if the notes of the invoice are non-empty; with
\* empty notes no node of the content carries a notes label or text.
C19_NotesBlockIffNotes ==
    Rendered =>
        LET content == call.result.content
            notesNodes == {i \in 1..Len(content) : content[i].node = "text"}
        IN  /\ notesNodes # {} <=> call.invoice.notes # ""
            /\ \A i \in notesNodes :
                  /\ i = Len(content)
                  /\ content[i].body =
                        <<[text |-> "Notes:\n", style |-> "label"],
                          [text |-> call.invoice.notes, style |-> "none"]>>

\* a document rendered for an invoice without notes: its last node is the
\* empty object
C19_Witness ==
    /\ Rendered
    /\ call.invoice.notes = ""
    /\ Len(call.invoice.items) = 2
    /\ LastNode.node = "empty"

\* the user deleteUserAccount was called for, and the one it found signed in
Caller == accountReq.userId

SignedIn == accountReq.user

\* the call may not delete: the ids differ, nobody is signed in, or the
\* password is not the one of the signed-in account
MustBeRefused ==
    \/ SignedIn = NoUser
    \/ SignedIn # Caller
    \/ accountReq.password # Password(SignedIn)

\* a client, invoice or profile record is removed or rewritten in this step
RecordTouched ==
    \/ \E d \in DOMAIN dbClients :
          d \notin DOMAIN dbClients' \/ dbClients'[d] # dbClients[d]
    \/ \E d \in DOMAIN dbInvoices :
          d \notin DOMAIN dbInvoices' \/ dbInvoices'[d] # dbInvoices[d]
    \/ \E u \in DOMAIN dbUsers :
          u \notin DOMAIN dbUsers' \/ dbUsers'[u] # dbUsers[u]

\* C20: deleteUserAccount deletes nothing unless userId is the signed-in
\* user and re-authentication with the supplied password succeeds: when the
\* ids differ or the password is wrong the call ends in a thrown Error and
\* the step leaves every client, invoice and profile record as it was; a
\* call gets past re-authentication, and a record is removed, only for the
\* signed-in user with the right password.
C20_DeleteNeedsReauthentication ==
    /\ [](accountReq # NoReq /\
           accountReq.phase \in {"reauthenticated", "committed", "ok"}
             => ~MustBeRefused)
    /\ [][(accountReq # NoReq /\ accountReq.phase = "sent" /\
             MustBeRefused /\ accountReq' # accountReq)
            => (/\ accountReq' # NoReq
                /\ accountReq'.phase = "failed"
                /\ accountReq'.error # ""
                /\ UNCHANGED <<dbClients, dbInvoices, dbUsers, auth>>)]_vars
    /\ [][RecordTouched
            => (/\ accountReq # NoReq
                /\ accountReq.phase = "reauthenticated"
                /\ ~MustBeRefused)]_vars

\* deleteUserAccount threw for a user id that is not the signed-in user's,
\* while clients, an invoice and the profile of that user are stored
C20_Witness ==
    /\ accountReq # NoReq
    /\ accountReq.phase = "failed"
    /\ accountReq.error = "User not authenticated or user ID mismatch"
    /\ SignedIn \notin {NoUser, Caller}
    /\ accountReq.password = Password(SignedIn)
    /\ \E d \in DOMAIN dbClients : dbClients[d].userId = Caller
    /\ \E d \in DOMAIN dbInvoices : dbInvoices[d].userId = Caller
    /\ Caller \in DOMAIN dbUsers

(* ------------------------------ ownership ------------------------------ *)

\* the records a get call returned
Returned == {call.result[i] : i \in DOMAIN call.result}

\* C21: a record created by createInvoice(u, data) or createClient(u, data)
\* is stored with userId u, also when data carries another userId, and
\* getInvoices(u) and getClients(u) return only records whose userId is u,
\* after any sequence of create, update and delete calls of several users.
C21_CreatedForCallerAndReadByOwner ==
    /\ call.fn = "createInvoice"
         => /\ call.id \in DOMAIN dbInvoices
            /\ dbInvoices[call.id].userId = call.userId
    /\ call.fn = "createClient"
         => /\ call.id \in DOMAIN dbClients
            /\ dbClients[call.id].userId = call.userId
    /\ call.fn \in {"getInvoices", "getClients"}
         => \A r \in Returned : r.userId = call.userId

\* createInvoice was called with data carrying the userId of another user,
\* while invoices of both users are stored
C21_Witness ==
    /\ call.fn = "createInvoice"
    /\ "userId" \in DOMAIN call.data
    /\ call.data.userId # call.userId
    /\ \A u \in Accounts : \E k \in DOMAIN dbInvoices : dbInvoices[k].userId = u

(* ------------------------- client form validation ---------------------- *)

RequiredFieldsToast == "Please fill in all required fields"

\* the client form is shown with an empty name, email or address
ClientFormIncomplete ==
    /\ page = "clients"
    /\ clientList.showForm
    /\ \E f \in {"name", "email", "address"} : clientList.formData[f] = ""

\* C22: submitting the client form with an empty name, email or address
\* makes no createClient or updateClient call and does not invoke onSuccess
\* (the form stays open, no refetch starts); the form data is unchanged.
C22_IncompleteClientFormIsNotSaved ==
    /\ [][ClientFormIncomplete /\ clientReq = NoReq
            => /\ clientReq' = NoReq
               /\ dbClients' = dbClients]_vars
    /\ [][toast' = RequiredFieldsToast /\ toast # RequiredFieldsToast
            => /\ ClientFormIncomplete
               /\ UNCHANGED <<clientList, clientReq, dbClients>>]_vars

\* the form that edits a stored client was submitted with the name cleared
C22_Witness ==
    /\ toast = RequiredFieldsToast
    /\ ClientFormIncomplete
    /\ clientList.editingClient # <<>>
    /\ clientList.formData.name = ""
    /\ clientList.formData.email # ""
    /\ clientReq = NoReq

(* ---------------------- handlers in flight together -------------------- *)

\* C23: when several handleStatusChange and handleDelete operations were in
\* flight together and all their repository calls succeeded, then once all
\* have completed the displayed invoice list equals the repository content:
\* every deleted invoice is absent and every remaining invoice shows its
\* stored status.
C23_ListEqualsRepositoryWhenHandlersDone ==
    (page = "list" /\ userProfile # NoProfile /\ listFetch = "idle" /\
       pending = {})
      => /\ Shown = {k \in DOMAIN dbInvoices :
                        dbInvoices[k].userId = userProfile}
         /\ \A i \in 1..Len(invoices) :
               invoices[i].status = dbInvoices[invoices[i].id].status

(* --------------------------- the auth context -------------------------- *)

\* every auth-state change was delivered and no callback awaits its fetch
CallbacksCompleted ==
    /\ auth.events = <<>>
    /\ auth.profileFetches = {}

\* C24: under any interleaving of auth-state-change callbacks and their
\* profile fetches, once all callbacks have completed userProfile is null
\* when currentUser is null, and otherwise has the uid of currentUser.
C24_ProfileFollowsCurrentUser ==
    CallbacksCompleted
      => IF auth.contextUser = NoUser
         THEN userProfile = NoProfile
         ELSE userProfile = auth.contextUser

(* ------------------------ account deletion, atomicity ------------------ *)

\* deleteUserAccount has returned or thrown
DeleteSettled == accountReq # NoReq /\ accountReq.phase \in {"ok", "failed"}

OwnsClient(u) == \E d \in DOMAIN dbClients : dbClients[d].userId = u

OwnsInvoice(u) == \E d \in DOMAIN dbInvoices : dbInvoices[d].userId = u

\* C25: account deletion is all-or-nothing: after deleteUserAccount returns
\* or throws, either the user's clients, invoices, profile document and auth
\* account are all deleted, or all of them still exist; the Firestore data
\* is never deleted while the auth account remains.
C25_AccountDeletionAllOrNothing ==
    DeleteSettled
      => \/ /\ Caller \in auth.accounts
            /\ Caller \in DOMAIN dbUsers
            /\ OwnsClient(Caller)
         \/ /\ Caller \notin auth.accounts
            /\ Caller \notin DOMAIN dbUsers
            /\ ~OwnsClient(Caller)
            /\ ~OwnsInvoice(Caller)

(* ------------------------ the selected client -------------------------- *)

\* a client id is selected that the loaded client list does not hold
SelectedClientNotLoaded ==
    /\ page = "create"
    /\ formData.clientId # ""
    /\ \A i \in 1..Len(clients) : clients[i].id # formData.clientId

StatusShownChanges(id) ==
    \E i \in DOMAIN invoices, j \in DOMAIN invoices' :
        /\ invoices[i].id = id
        /\ invoices'[j].id = id
        /\ invoices'[j].status # invoices[i].status

\* C27: when updateInvoice fails during handleStatusChange the displayed
\* status of every invoice is left unchanged; the handler changes the
\* displayed status of an invoice only after the repository update for that
\* invoice has succeeded: not when the call is sent, and on its return only
\* when the call succeeded, for the invoice and with the status of the call
\* (for a handler whose copy of the list is the displayed one).
C27_StatusShownOnlyAfterUpdateSucceeded ==
    /\ [][pending' # pending /\ pending \subseteq pending'
            => invoices' = invoices]_vars
    /\ [][\A o \in pending \ pending' :
            /\ o.phase = "failed" => invoices' = invoices
            /\ \A id \in Shown :
                  StatusShownChanges(id)
                    => /\ o.phase = "ok"
                       /\ o.closure = invoices
                            => /\ o.op = "updateInvoice"
                               /\ o.id = id
                               /\ \A j \in DOMAIN invoices' :
                                     invoices'[j].id = id
                                       => invoices'[j].status = o.status]_vars

\* a status update of a stored invoice failed and its handler has returned:
\* the list still shows the stored status
C27_Witness ==
    /\ page = "list"
    /\ pending = {}
    /\ toast = "Failed to update status"
    /\ invoices # <<>>
    /\ \A i \in DOMAIN invoices :
          /\ invoices[i].id \in DOMAIN dbInvoices
          /\ invoices[i].status = dbInvoices[invoices[i].id].status
          /\ invoices[i].status # "paid"

(* ---------------------------- user statistics -------------------------- *)

\* the stored invoices of the user the statistics were asked for
StatsInvoices ==
    {k \in DOMAIN dbInvoices : dbInvoices[k].userId = call.userId}

\* C28: getUserStats(u).pendingInvoices is the number of u's invoices with
\* stored status 'sent', the set the dashboard counts as pending; paidInvoices
\* is the number with status 'paid' and invoiceCount the number of u's
\* invoices.
C28_StatsCountSentPaidAndAll ==
    call.fn = "getUserStats"
      => /\ call.result.pendingInvoices =
               Cardinality({k \in StatsInvoices :
                               dbInvoices[k].status = "sent"})
         /\ call.result.pendingInvoices =
               Len(pendingInvoices(getInvoices(call.userId)))
         /\ call.result.paidInvoices =
               Cardinality({k \in StatsInvoices :
                               dbInvoices[k].status = "paid"})
         /\ call.result.invoiceCount = Cardinality(StatsInvoices)

(* --------------------- account deletion, the message ------------------- *)

\* C29: when account deletion fails because the password is wrong
\* (auth/wrong-password) the Settings screen reports an incorrect-password
\* error, and when it fails with auth/too-many-requests a too-many-attempts
\* error, rather than the generic 'Failed to delete account' message.
C29_SettingsNamesTheAuthFailure ==
    [][(accountReq # NoReq /\ accountReq.phase = "failed" /\
          accountReq' = NoReq)
         => /\ accountReq.error = AuthErrorMessage("auth/wrong-password")
                 => toast' = "Incorrect password"
            /\ accountReq.error = AuthErrorMessage("auth/too-many-requests")
                 => toast' = "Too many attempts. Please try again later"]_vars

====
